---- MODULE Spec2Model ----
(***************************************************************************)
(* Model of the Nexuss agent core: the hierarchical memory store           *)
(* (src/memory_system.py) and the heartbeat scheduler                      *)
(* (src/heartbeat_protocol.py).                                            *)
(*                                                                         *)
(* Strings are abstracted: a core content is a record [len, txt] (its      *)
(* length and which text of that length it is); a recall message is a      *)
(* record [role, content] whose content is an abstract text identifier.    *)
(***************************************************************************)
EXTENDS Integers, Sequences, FiniteSets, TLC

\* ---------------------------------------------------------------- bounds
\* number of different texts of one length
NumVariants == 2
\* number of different recall message texts offered to add_to_recall
NumTexts == 2
\* length of the log of add_to_recall calls kept for the FIFO property
MaxAppends == 5

\* user inputs submitted in one run
MaxInputs == 2
\* heartbeat cycles started in one run
MaxBeats == 2
\* heartbeat cycles started in a run with failing cycles (one more than
\* HEARTBEAT_MAX_MISSED, so that the ERROR state is reached and left)
MaxFailBeats == 4

\* archival blocks in the store build_context is called on
MaxBlocks == 2
\* build_context calls in one run
MaxCtxCalls == 2
\* add_to_archival calls in one run
MaxArchived == 3
\* clock seconds that pass in one run
MaxClock == 1
\* search_archival calls in one run
MaxSearches == 2
\* archival blocks in the store search_archival is called on
MaxIndexed == 3

\* ------------------------------------------------------------- constants
\* src/config.py:15
CORE_MEMORY_LIMIT == 2048
\* src/config.py:16 sets 100; the model keeps the deque small so that
\* eviction happens within a few appends (the code only compares lengths
\* against this value)
RECALL_MEMORY_LIMIT == 3

\* src/config.py:18
ATTENTION_WINDOW_TOKENS == 4096
\* attention_mechanism.py:29: the tokens kept free for the reply
RESERVED_TOKENS == 500
\* attention_mechanism.py:32: the limit passed to search_archival
CONTEXT_SEARCH_LIMIT == 5

\* src/config.py:11
HEARTBEAT_MAX_MISSED == 3
\* heartbeat_protocol.py:73  deque(maxlen=100)
HISTORY_MAXLEN == 100

\* core keys used by the callers (src/nexuss_agent.py:67-68)
Keys == {"persona", "user_info"}

\* content lengths around the boundaries of the budget check
Lens == {0, CORE_MEMORY_LIMIT \div 2, CORE_MEMORY_LIMIT \div 2 + 1,
         CORE_MEMORY_LIMIT, CORE_MEMORY_LIMIT + 1}

\* the strings passed as content: the empty string is the only one of length 0
Contents == {[len |-> l, txt |-> v] : l \in Lens \ {0}, v \in 1..NumVariants}
              \cup {[len |-> 0, txt |-> 1]}

Roles == {"user", "assistant", "system", "tool"}

VARIABLES
  core,         \* MemoryManager.core: key -> MemoryBlock (partial function)
  core_file,    \* the persisted core record <agent_id>_core.json
  recall,       \* MemoryManager.recall: deque(maxlen=RECALL_MEMORY_LIMIT)
  mem_result,   \* outcome of the last store call: "none", "true", "false",
                \* "id" (a block identifier is returned), "raise"
  archival_index, \* MemoryManager.archival_index: the blocks in insertion order
  archival_files, \* the persisted archival records <block id>.json
  now,          \* int(time.time()): the clock second
  appended,     \* history: every message passed to add_to_recall, in call order
  last_call     \* history: the last core call, its arguments and the store before it

arcV == <<archival_files, now>>
memVars == <<core, core_file, recall, archival_index, arcV, mem_result,
             appended, last_call>>

\* the thread objects start() creates in one run
Workers == {1, 2}
\* the threads of the host that call start() and stop()
Callers == {1, 2}

VARIABLES
  is_local,            \* HeartbeatProtocol._is_local
  state,               \* HeartbeatProtocol.state (AgentState)
  beat_count,          \* HeartbeatProtocol.beat_count
  missed_beats,        \* HeartbeatProtocol.missed_beats
  heartbeat_history,   \* HeartbeatProtocol.heartbeat_history
  stop_event,          \* _stop_event (threading.Event)
  heartbeat_requested, \* _heartbeat_requested (threading.Event), the wake flag
  user_input_queue,    \* _user_input_queue
  output_queue,        \* _output_queue
  heartbeat_thread,    \* _heartbeat_thread: 0 for None, else a thread object
  lock_owner,          \* holder of HeartbeatProtocol._lock, 0 when free
  wpc,                 \* per thread object: position in _heartbeat_loop
  triggered,           \* per worker: local `triggered`
  user_messages,       \* per worker: local `user_messages`
  llm_messages,        \* per worker: the messages passed to the backend
  cpc,                 \* per controlling thread: position in start() / stop()
  cjoin,               \* per controlling thread: the thread object stop() joins
  spc                  \* the submitting thread: position in send_user_input()

hbVars == <<is_local, state, beat_count, missed_beats, heartbeat_history,
            stop_event, heartbeat_requested, user_input_queue, output_queue,
            heartbeat_thread, lock_owner, wpc, triggered, user_messages,
            llm_messages, cpc, cjoin, spc>>

\* history variables (not program state)
VARIABLES
  n_put,         \* number of inputs put so far; input i is the i-th put
  user_log,      \* contents of the user-role add_to_recall calls, in order
  mid_early,     \* inputs put during the running cycle before its drain ended
  mid_late,      \* inputs put during the running cycle after its drain ended
  carried,       \* the inputs that were in mid_late when the last cycle ended
  sets_pending,  \* the wake flag was set since wait() last returned True
  other_wake,    \* the wake flag was set by something else than an input
  stop_cycles,   \* per worker: cycles begun while the stop flag has been set
  start_called,  \* start() was called since stop() last set the state
  cyc,           \* what the running cycle has done so far: the entries it put
                 \* on the output channel, the messages it appended to
                 \* recall, its backend calls, the reply it received and
                 \* the dispatcher calls it made
  out_taken,     \* the entries get_output() has returned, in order
  consec_fail,   \* the cycles that ended with an escaping exception since the
                 \* last cycle that ended without one
  ctx_calls,     \* number of build_context calls made by the caller of the store
  ctx_last,      \* the arguments and the result of the latest of these calls
  arch_calls,    \* number of add_to_archival calls
  search_last    \* the arguments and the result of the latest search_archival
                 \* call of the archival callers, and the index before it

callV == <<n_put, user_log, mid_early, mid_late, carried, sets_pending,
           other_wake, stop_cycles, cyc, out_taken, consec_fail>>
attV == <<ctx_calls, ctx_last, arch_calls, search_last>>
histVars == <<callV, start_called, attV>>

\* history variables of the persistence runs
VARIABLES
  store_calls,   \* number of store calls made in a run with restarts
  save_failed,   \* one of these calls ended with an exception
  dels,          \* number of blocks deleted by these calls
  restarts       \* number of times the store was re-created from the files

persV == <<store_calls, save_failed, dels, restarts>>

\* the threads that call the store concurrently
StoreThreads == {1, 2}

VARIABLES
  mem_lock,      \* MemoryManager._lock (threading.RLock): its owner, 0 when free
  upc,           \* per thread: its position in update_core_memory, the
                 \* arguments, the local total_len and the value returned
  shadow,        \* history: the core and the outcome per thread of the same
                 \* calls made one after the other, in the order in which
                 \* the calls entered the lock
  lcyc           \* the cycle of the worker (thread 1) as a sequence of store
                 \* calls and a backend call: its position, the number of
                 \* cycles begun and whether the reply holds a tool call

lockV == <<mem_lock, upc, shadow, lcyc>>

VARIABLES
  chat_in,       \* the messages passed to LocalModel.chat
  chat_out       \* the sequence `final` it builds for the chat template

chatV == <<chat_in, chat_out>>

VARIABLES
  skill_result,  \* the SkillResult the latest SkillRegistry.execute returned
  tool_message,  \* the name and the result of the tool message the scheduler
                 \* built for it (the object passed to json.dumps)
  skill_calls    \* number of tool calls dispatched

skillV == <<skill_result, tool_message, skill_calls>>

VARIABLES
  chat_call,     \* NexussAgent.chat: its position, the message m, the local
                 \* list `responses`, the number of calls made and what the
                 \* latest call returned
  hb_run         \* the worker's cycle in the runs of the agent: its position
                 \* and the entries it has still to put on the output channel

agentV == <<chat_call, hb_run>>
extV == <<persV, lockV, chatV, skillV, agentV>>

\* the groups besides the one a step works on
notPersV == <<lockV, chatV, skillV, agentV>>
notLockV == <<persV, chatV, skillV, agentV>>
notChatV == <<persV, lockV, skillV, agentV>>
notSkillV == <<persV, lockV, chatV, agentV>>
notAgentV == <<persV, lockV, chatV, skillV>>

\* groups used in the UNCHANGED clauses
statV == <<state, beat_count, missed_beats, heartbeat_history>>
cycV == <<lock_owner, triggered, user_messages, llm_messages>>
ctlV == <<cpc, cjoin>>
midV == <<mid_early, mid_late, carried>>

vars == <<memVars, hbVars, histVars, extV>>

\* ------------------------------------------------------------ MemoryBlock
\* src/enums_and_dataclasses.py:32-41 (fields the model tracks)
MemoryBlock(content) == [content |-> content, access_count |-> 0]

RECURSIVE SumLen(_, _)
\* sum(len(b.content) for k, b in blocks.items() if k in ks)
SumLen(blocks, ks) ==
  IF ks = {} THEN 0
  ELSE LET k == CHOOSE x \in ks : TRUE
       IN blocks[k].content.len + SumLen(blocks, ks \ {k})

\* memory_system.py:118  sum(len(b.content) for b in self.core.values())
CoreChars(blocks) == SumLen(blocks, DOMAIN blocks)

\* memory_system.py:125-128; the write may fail (open() or the dump raises):
\* ok = FALSE leaves the file either untouched or truncated/partial
SaveCoreOutcomes(blocks, file, ok) ==
  IF ok THEN {[valid |-> TRUE, data |-> blocks]}
  ELSE {file, [valid |-> FALSE, data |-> file.data]}

\* memory_system.py:40-43: the budget check of update_core_memory
CoreFits_IgnoresNew(blocks, key, content) ==
  SumLen(blocks, DOMAIN blocks \ {key}) <= CORE_MEMORY_LIMIT

CoreFits(blocks, key, content) ==
  SumLen(blocks, DOMAIN blocks \ {key}) + content.len <= CORE_MEMORY_LIMIT

\* memory_system.py:44-51: the upsert
CoreUpsert(blocks, key, content) ==
  [k \in DOMAIN blocks \cup {key} |->
     IF k = key
       THEN IF key \in DOMAIN blocks
              THEN [blocks[key] EXCEPT !.content = content]
              ELSE MemoryBlock(content)
       ELSE blocks[k]]

\* memory_system.py:38-54
update_core_memory(key, content, ioOk) ==
  IF ~CoreFits(core, key, content)
    THEN /\ mem_result' = "false"
         /\ UNCHANGED <<core, core_file>>
    ELSE /\ core' = CoreUpsert(core, key, content)
         /\ core_file' \in SaveCoreOutcomes(core', core_file, ioOk)
         /\ mem_result' = IF ioOk THEN "true" ELSE "raise"

\* memory_system.py:56-62
delete_core_memory(key, ioOk) ==
  IF key \in DOMAIN core
    THEN /\ core' = [k \in DOMAIN core \ {key} |-> core[k]]
         /\ core_file' \in SaveCoreOutcomes(core', core_file, ioOk)
         /\ mem_result' = IF ioOk THEN "true" ELSE "raise"
    ELSE /\ mem_result' = "false"
         /\ UNCHANGED <<core, core_file>>

\* collections.deque(maxlen=n).append, memory_system.py:25
DequeAppend_NoEvict(q, x, maxlen) ==
  IF Len(q) >= maxlen THEN q ELSE Append(q, x)

DequeAppend(q, x, maxlen) ==
  IF Len(q) >= maxlen THEN Append(Tail(q), x) ELSE Append(q, x)

\* memory_system.py:64-66
add_to_recall(buf, message) == DequeAppend(buf, message, RECALL_MEMORY_LIMIT)

\* Python's seq[start:]: a negative start counts from the end, and a start
\* outside the list is clamped to it
SliceFrom(seq, start) ==
  LET n == Len(seq)
      fromEnd == IF start < 0 THEN start + n ELSE start
      first == IF fromEnd < 0 THEN 0 ELSE IF fromEnd > n THEN n ELSE fromEnd
  IN SubSeq(seq, first + 1, n)

\* memory_system.py:68-71: limit is [given |-> FALSE] for None, or an integer
\* in the field n; "if limit" is false for None and for 0
get_recall_messages(buf, limit) ==
  IF limit.given /\ limit.n # 0 THEN SliceFrom(buf, -limit.n) ELSE buf

\* ollama Message(role=..., content=...)
Message(role, content) == [role |-> role, content |-> content]

\* the value of chat_out before LocalModel.chat has been called
NoChat == <<>>

\* a thread that is not in update_core_memory and has made no call
NoUpdate == [pc |-> "idle", calls |-> 0]

\* the value of ctx_last while no build_context call has been made
NoContext == [made |-> FALSE]

\* the value of llm_messages while no backend call is being prepared
NoMessages == [context |-> <<>>, final |-> <<>>, kind |-> "none"]


\* memory_system.py:30-36: the read bumps every block's access counter
get_core_memory(blocks) ==
  [k \in DOMAIN blocks |-> [blocks[k] EXCEPT !.access_count = @ + 1]]

\* the length of str.upper() of a core key
KeyLen(key) == IF key = "persona" THEN 7 ELSE 9

RECURSIVE SumKeyLen(_)
SumKeyLen(ks) ==
  IF ks = {} THEN 0
  ELSE LET k == CHOOSE x \in ks : TRUE IN KeyLen(k) + SumKeyLen(ks \ {k})

\* ------------------------------------------------------ archival search
\* the words the model's texts are made of; a block content is abstracted to
\* the words it contains, its length and which block it is
Words == {1, 2}

\* the words of a query text (str.split of memory_system.py:93): the texts 1
\* and 2 are one word each, any other text is the two words together
QueryWords(q) == IF q \in Words THEN {q} ELSE Words

\* memory_system.py:98: the number of query words the content contains
Score(words, block) == Cardinality(words \cap block.words)

\* memory_system.py:102: the sort key of a match
SortKey(block, words) == <<Score(words, block), block.importance>>

\* the order of two sort keys (tuples compare by their first components first)
KeyLess(a, b) == a[1] < b[1] \/ (a[1] = b[1] /\ a[2] < b[2])

RECURSIVE InsertDesc(_, _, _)
\* list.sort(reverse=True) is stable: a match goes after the matches whose key
\* is not less than its own
InsertDesc(sorted, block, words) ==
  IF sorted = <<>> THEN <<block>>
  ELSE IF KeyLess(SortKey(Head(sorted), words), SortKey(block, words))
         THEN <<block>> \o sorted
         ELSE <<Head(sorted)>> \o InsertDesc(Tail(sorted), block, words)

RECURSIVE SortDesc(_, _)
SortDesc(blocks, words) ==
  IF blocks = <<>> THEN <<>>
  ELSE InsertDesc(SortDesc(SubSeq(blocks, 1, Len(blocks) - 1), words),
                  blocks[Len(blocks)], words)

\* memory_system.py:95: the block passes the tag filter (no filter is None
\* or an empty list)
PassesTags_NoFilter(block, tags) == TRUE

PassesTags(block, tags) == tags = {} \/ tags \cap block.tags # {}

\* memory_system.py:94-101: the block is a match of the search
IsMatch(block, words, tags) == PassesTags(block, tags) /\ Score(words, block) > 0

\* memory_system.py:103: results[:limit] for a limit that is not negative
FirstN(seq, limit) == SubSeq(seq, 1, IF Len(seq) < limit THEN Len(seq) ELSE limit)

\* memory_system.py:99-101: the blocks whose access counter the search bumps
Touches(block, words, tags, returned) == IsMatch(block, words, tags)

\* memory_system.py:89-103: the index after the call (the access counter of
\* every match is bumped) and the matches returned, best first; the blocks
\* returned are the objects of the index, so they show the bumped counter
search_archival(index, query, limit, tags) ==
  LET words == QueryWords(query)
      returned == FirstN(SortDesc(SelectSeq(index,
                            LAMBDA b : IsMatch(b, words, tags)), words), limit)
      touched == [i \in 1..Len(index) |->
                    IF Touches(index[i], words, tags, returned)
                      THEN [index[i] EXCEPT !.access_count = @ + 1]
                      ELSE index[i]]
  IN [index |-> touched,
      results |-> FirstN(SortDesc(SelectSeq(touched,
                           LAMBDA b : IsMatch(b, words, tags)), words), limit)]

\* ------------------------------------------------------------ archiving
\* Utils.py:32-33 and memory_system.py:79: the identifier of a block: the
\* hash of the content (distinct contents of the model have distinct hashes)
\* and the clock second
ArchivalId(content, second) == <<content, second>>

\* memory_system.py:80-83: the block add_to_archival creates
NewArchivalBlock(content, tags, importance, second) ==
  [id |-> ArchivalId(content.id, second), content |-> content.id,
   words |-> content.words, len |-> content.len, tags |-> tags,
   importance |-> importance, access_count |-> 0]

\* memory_system.py:84: archival_index[block_id] = block: a new key goes to
\* the end of the dict, an existing key keeps its place and gets the new block
DictPut_Fresh(index, block) == Append(index, block)

DictPut(index, block) ==
  IF \E i \in 1..Len(index) : index[i].id = block.id
    THEN [i \in 1..Len(index) |->
            IF index[i].id = block.id THEN block ELSE index[i]]
    ELSE Append(index, block)

\* memory_system.py:130-133; the write may fail (open() or the dump raises):
\* ok = FALSE leaves the file absent or as it was, or truncated/partial
SaveArchivalOutcomes(files, block, ok) ==
  LET put(data) == [id \in DOMAIN files \cup {block.id} |->
                      IF id = block.id THEN data ELSE files[id]]
  IN IF ok THEN {put([valid |-> TRUE, data |-> block])}
     ELSE {files, put([valid |-> FALSE])}

\* memory_system.py:77-87
add_to_archival(content, tags, importance, ioOk) ==
  LET block == NewArchivalBlock(content, tags, importance, now)
  IN /\ archival_index' = DictPut(archival_index, block)
     /\ archival_files' \in SaveArchivalOutcomes(archival_files, block, ioOk)
     /\ mem_result' = IF ioOk THEN "id" ELSE "raise"

\* the index without the block of this identifier (del dict[key])
DictDel(index, block_id) == SelectSeq(index, LAMBDA b : b.id # block_id)

\* the files without the file of this identifier (Path.unlink)
Unlink(files, block_id) ==
  [id \in DOMAIN files \ {block_id} |-> files[id]]

\* memory_system.py:105-113; the unlink may fail (ok = FALSE: the call raises
\* after the block has left the index)
delete_archival_KeepsFile(block_id, ioOk) ==
  IF \E i \in 1..Len(archival_index) : archival_index[i].id = block_id
    THEN /\ archival_index' = DictDel(archival_index, block_id)
         /\ archival_files' = archival_files
         /\ mem_result' = "true"
    ELSE /\ mem_result' = "false"
         /\ UNCHANGED <<archival_index, archival_files>>

delete_archival(block_id, ioOk) ==
  IF \E i \in 1..Len(archival_index) : archival_index[i].id = block_id
    THEN /\ archival_index' = DictDel(archival_index, block_id)
         /\ archival_files' =
              IF block_id \in DOMAIN archival_files /\ ioOk
                THEN Unlink(archival_files, block_id) ELSE archival_files
         /\ mem_result' =
              IF block_id \in DOMAIN archival_files /\ ~ioOk
                THEN "raise" ELSE "true"
    ELSE /\ mem_result' = "false"
         /\ UNCHANGED <<archival_index, archival_files>>

\* ------------------------------------------------------------ loading
\* memory_system.py:136-152: the core after the load: the blocks of the file,
\* or none when the file cannot be parsed (a file that was never written is
\* the record of the empty core)
LoadCore(file) == IF file.valid THEN file.data ELSE <<>>

\* the orders of the elements of a set as sequences
Orders(S) ==
  {f \in [1..Cardinality(S) -> S] :
     \A i, j \in 1..Cardinality(S) : i # j => f[i] # f[j]}

\* memory_system.py:154-170: the records that can be parsed
Loadable_AbortsOnCorrupt(files) ==
  IF \E id \in DOMAIN files : ~files[id].valid THEN {} ELSE DOMAIN files

Loadable(files) == {id \in DOMAIN files : files[id].valid}

\* memory_system.py:154-170: the indexes the load can build: one block per
\* record that can be parsed, in the order glob() yields the files
LoadArchival(files) ==
  {[i \in 1..Len(order) |-> files[order[i]].data] :
     order \in Orders(Loadable(files))}

\* memory_system.py:22-28: MemoryManager(agent_id) on the persisted records
load_persistent_memory ==
  /\ core' = LoadCore(core_file)
  /\ archival_index' \in LoadArchival(archival_files)
  /\ recall' = <<>>
  /\ mem_result' = "none"
  /\ UNCHANGED <<core_file, archival_files>>

\* ------------------------------------------ LocalModel.chat: the turns
\* a text is the sequence of its pieces: the content of the i-th input
\* message is the piece i, and the literals of the code are the pieces below
NL == 0
TOOL_PREFIX == -1
START == -2

RECURSIVE JoinLines(_)
\* "\n".join(texts)
JoinLines(texts) ==
  IF texts = <<>> THEN <<>>
  ELSE IF Len(texts) = 1 THEN texts[1]
  ELSE texts[1] \o <<NL>> \o JoinLines(Tail(texts))

\* local_model_wrapper.py:96-99 and 114-117: a message of the role of the
\* last one is added to it, another one is appended
Collapse_Appends(msgs, role, content) ==
  Append(msgs, [role |-> role, content |-> content])

Collapse(msgs, role, content) ==
  IF msgs # <<>> /\ msgs[Len(msgs)].role = role
    THEN [msgs EXCEPT ![Len(msgs)].content = @ \o <<NL>> \o content]
    ELSE Append(msgs, [role |-> role, content |-> content])

\* local_model_wrapper.py:84-99: one pass of the loop over the messages
ChatStep(st, msg) ==
  IF msg.role = "system"
    THEN [st EXCEPT !.system_buf = Append(@, msg.content)]
    ELSE LET role == IF msg.role = "tool" THEN "user" ELSE msg.role
             own == IF msg.role = "tool" THEN <<TOOL_PREFIX>> \o msg.content
                    ELSE msg.content
             folds == st.system_buf # <<>> /\ role = "user"
             content == IF folds
                          THEN JoinLines(st.system_buf) \o <<NL, NL>> \o own
                          ELSE own
         IN [merged |-> Collapse(st.merged, role, content),
             system_buf |-> IF folds THEN <<>> ELSE st.system_buf]

RECURSIVE ChatLoop(_, _)
ChatLoop(st, msgs) ==
  IF msgs = <<>> THEN st ELSE ChatLoop(ChatStep(st, Head(msgs)), Tail(msgs))

\* local_model_wrapper.py:100-106: the system content left over
FlushSystem(st) ==
  IF st.system_buf = <<>> THEN st.merged
  ELSE IF st.merged # <<>> /\ st.merged[Len(st.merged)].role = "user"
    THEN [st.merged EXCEPT ![Len(st.merged)].content =
                             @ \o <<NL>> \o JoinLines(st.system_buf)]
    ELSE Append(st.merged, [role |-> "user",
                            content |-> JoinLines(st.system_buf)])

\* local_model_wrapper.py:107-111: never empty, and a user turn first
StartWithUser(merged) ==
  LET some == IF merged = <<>> THEN <<[role |-> "user", content |-> <<>>]>>
              ELSE merged
  IN IF some[1].role # "user"
       THEN <<[role |-> "user", content |-> <<START>>]>> \o some
       ELSE some

RECURSIVE Alternate(_, _)
\* local_model_wrapper.py:112-117
Alternate(final, rest) ==
  IF rest = <<>> THEN final
  ELSE Alternate(Collapse(final, rest[1].role, rest[1].content), Tail(rest))

\* local_model_wrapper.py:77-117: the sequence passed to the chat template
NormalizeChat(messages) ==
  LET merged == StartWithUser(FlushSystem(
                  ChatLoop([merged |-> <<>>, system_buf |-> <<>>], messages)))
  IN Alternate(<<merged[1]>>, Tail(merged))

\* ------------------------------------------------------ attention assembly
\* Utils.py:38-39
estimate_tokens(len) == len \div 4

\* Utils.py:35-36: the length of truncate(text, max_len)
TruncatedLen(len, max_len) == IF len > max_len THEN max_len ELSE len

\* the length of a recall message text: text 1 costs 400 tokens, the others
\* 2000, so that two of them exceed the window
TextLen(text) == IF text = 0 THEN 0 ELSE IF text = 1 THEN 1600 ELSE 8000

\* memory_system.py:30-36: the length of the string get_core_memory returns:
\* "[KEY]\ncontent" per block, joined by "\n\n"
CoreContentLen(blocks) ==
  LET n == Cardinality(DOMAIN blocks)
  IN IF n = 0 THEN 0
     ELSE CoreChars(blocks) + SumKeyLen(DOMAIN blocks) + 3 * n + 2 * (n - 1)

\* memory_system.py:30-36: the text get_core_memory returns, by block
CoreContent(blocks) == [k \in DOMAIN blocks |-> blocks[k].content]

\* attention_mechanism.py:34: what a match contributes to the archival part
ArchivalLine_WithCount(block) ==
  [content |-> block.content, len |-> 2 + TruncatedLen(block.len, 200),
   access_count |-> block.access_count]

ArchivalLine(block) ==
  [content |-> block.content, len |-> 2 + TruncatedLen(block.len, 200)]

RECURSIVE SumLineLen(_)
SumLineLen(lines) ==
  IF lines = <<>> THEN 0 ELSE Head(lines).len + SumLineLen(Tail(lines))

\* attention_mechanism.py:35: the length of
\* "\n### RELEVANT MEMORIES ###\n" + "\n".join(archival_parts)
ArchivalContentLen(lines) == 27 + SumLineLen(lines) + (Len(lines) - 1)

\* attention_mechanism.py:29: the budget left after the system prompt and the
\* core memory
RemainingBudget_NoMargin(used) == ATTENTION_WINDOW_TOKENS - used

RemainingBudget(used) == ATTENTION_WINDOW_TOKENS - used - RESERVED_TOKENS

\* attention_mechanism.py:37: the test for the archival excerpt (// is the
\* floor division)
ExcerptFits_NotStrict(cost, remaining) == cost <= remaining \div 3

ExcerptFits(cost, remaining) == cost < remaining \div 3

\* attention_mechanism.py:47: the test that ends the recall loop
Overflows_IgnoresUsed(recall_tokens, msg_tokens, remaining) ==
  msg_tokens > remaining

Overflows(recall_tokens, msg_tokens, remaining) ==
  recall_tokens + msg_tokens > remaining

RECURSIVE RecallToAdd(_, _, _)
\* attention_mechanism.py:42-51: the newest messages that fit the remaining
\* budget, oldest first, and their tokens; msgs is the part of the buffer not
\* yet looked at
RecallToAdd(msgs, remaining, acc) ==
  IF msgs = <<>> THEN acc
  ELSE LET msg == msgs[Len(msgs)]
           msg_tokens == estimate_tokens(TextLen(msg.content))
       IN IF Overflows(acc.tokens, msg_tokens, remaining) THEN acc
          ELSE RecallToAdd(SubSeq(msgs, 1, Len(msgs) - 1), remaining,
                           [msgs |-> <<msg>> \o acc.msgs,
                            tokens |-> acc.tokens + msg_tokens])

\* attention_mechanism.py:21-59: the messages and the AttentionContext
\* returned, and the store after the call; focus 0 is None
build_context(prompt, focus, blocks, index, buf) ==
  LET system_tokens == estimate_tokens(prompt.len)
      core_after == get_core_memory(blocks)
      core_tokens == estimate_tokens(CoreContentLen(blocks))
      used0 == system_tokens + core_tokens
      remaining0 == RemainingBudget(used0)
      found == IF focus # 0
                 THEN search_archival(index, focus, CONTEXT_SEARCH_LIMIT, {})
               ELSE [index |-> index, results |-> <<>>]
      lines == [i \in 1..Len(found.results) |-> ArchivalLine(found.results[i])]
      archival_tokens == estimate_tokens(ArchivalContentLen(lines))
      included == found.results # <<>> /\ ExcerptFits(archival_tokens, remaining0)
      used1 == IF included THEN used0 + archival_tokens ELSE used0
      remaining1 == IF included THEN remaining0 - archival_tokens ELSE remaining0
      added == RecallToAdd(buf, remaining1, [msgs |-> <<>>, tokens |-> 0])
      used2 == used1 + added.tokens
      system == [role |-> "system",
                 content |-> [prompt |-> prompt, core |-> CoreContent(blocks),
                              archival |-> IF included THEN lines ELSE <<>>]]
  IN [messages |-> <<system>> \o added.msgs,
      context |-> [total_tokens |-> used2, core_tokens |-> core_tokens,
                   recall_tokens |-> added.tokens,
                   system_tokens |-> system_tokens,
                   available_tokens |-> ATTENTION_WINDOW_TOKENS - used2,
                   focus_topic |-> focus],
      core |-> core_after,
      index |-> found.index]

\* ------------------------------------------------------------------ Init
\* memory_system.py:22-28 on a fresh data directory
MemInit ==
  /\ core = <<>>
  /\ archival_index = <<>>
  /\ archival_files = <<>>
  /\ now = 0
  /\ core_file = [valid |-> TRUE, data |-> <<>>]
  /\ recall = <<>>
  /\ mem_result = "none"
  /\ appended = <<>>
  /\ last_call = [op |-> "none"]

\* heartbeat_protocol.py:59-85
HbInit ==
  /\ is_local \in BOOLEAN
  /\ state = "INITIALIZING"
  /\ beat_count = 0
  /\ missed_beats = 0
  /\ heartbeat_history = <<>>
  /\ stop_event = FALSE
  /\ heartbeat_requested = FALSE
  /\ user_input_queue = <<>>
  /\ output_queue = <<>>
  /\ heartbeat_thread = 0
  /\ lock_owner = 0
  /\ wpc = [w \in Workers |-> "none"]
  /\ triggered = [w \in Workers |-> FALSE]
  /\ user_messages = [w \in Workers |-> <<>>]
  /\ llm_messages = [w \in Workers |-> NoMessages]
  /\ cpc = [c \in Callers |-> "idle"]
  /\ cjoin = [c \in Callers |-> 0]
  /\ spc = "idle"

\* the record of a cycle that has done nothing yet
NoCycle ==
  [out |-> <<>>, rec |-> <<>>, calls |-> 0, invoked |-> <<>>,
   resp |-> [kind |-> "none", content |-> 0, tool_calls |-> <<>>]]

HistoryInit ==
  /\ n_put = 0
  /\ user_log = <<>>
  /\ mid_early = {}
  /\ mid_late = {}
  /\ carried = {}
  /\ sets_pending = FALSE
  /\ other_wake = FALSE
  /\ stop_cycles = [w \in Workers |-> 0]
  /\ start_called = FALSE
  /\ cyc = NoCycle
  /\ out_taken = <<>>
  /\ consec_fail = 0
  /\ ctx_calls = 0
  /\ ctx_last = NoContext
  /\ arch_calls = 0
  /\ search_last = NoContext
  /\ store_calls = 0
  /\ save_failed = FALSE
  /\ dels = 0
  /\ restarts = 0
  /\ mem_lock = 0
  /\ upc = [t \in StoreThreads |-> NoUpdate]
  /\ shadow = [core |-> <<>>, accepted |-> [t \in StoreThreads |-> FALSE]]
  /\ lcyc = [pc |-> <<"idle">>, n |-> 0, tool |-> FALSE]

\* LocalModel.chat has not been called
ChatIdle ==
  /\ chat_in = <<>>
  /\ chat_out = NoChat

\* enums_and_dataclasses.py:72-76: a SkillResult; None is Python's None
None == "None"

SkillResult(success, output, error) ==
  [success |-> success, output |-> output, error |-> error]

\* no tool call has been dispatched
SkillIdle ==
  /\ skill_result = SkillResult(TRUE, None, None)
  /\ tool_message = [name |-> "none", result |-> None]
  /\ skill_calls = 0

\* what chat() has returned while it has not been called
NoReply == [kind |-> "none", parts |-> <<>>, dropped |-> <<>>]

\* chat() has not been called and the worker is between two cycles
AgentIdle ==
  /\ chat_call = [pc |-> "idle", m |-> 0, responses |-> <<>>, n |-> 0,
                  reply |-> NoReply]
  /\ hb_run = [pc |-> "wait", todo |-> <<>>]

HistInit == HistoryInit /\ ChatIdle /\ SkillIdle /\ AgentIdle

Init == MemInit /\ HbInit /\ HistInit

\* ---------------------------------------------------- store call actions
UpdateCore ==
  \E key \in Keys, content \in Contents, ioOk \in BOOLEAN :
    /\ update_core_memory(key, content, ioOk)
    /\ last_call' = [op |-> "update", key |-> key, content |-> content, core |-> core]
    /\ UNCHANGED <<recall, appended, hbVars, histVars,
                 archival_index, arcV, extV>>

DeleteCore ==
  \E key \in Keys, ioOk \in BOOLEAN :
    /\ delete_core_memory(key, ioOk)
    /\ last_call' = [op |-> "delete", key |-> key, core |-> core]
    /\ UNCHANGED <<recall, appended, hbVars, histVars,
                 archival_index, arcV, extV>>

AddToRecall ==
  \E role \in Roles, text \in 1..NumTexts :
    /\ Len(appended) < MaxAppends
    /\ recall' = add_to_recall(recall, Message(role, text))
    /\ appended' = Append(appended, Message(role, text))
    /\ mem_result' = "none"
    /\ UNCHANGED <<core, core_file, last_call, hbVars, histVars,
                 archival_index, arcV, extV>>

\* ------------------------------------------------- scheduler: the callers
\* threading.Thread.is_alive(): started and not yet finished
IsAlive(t) == wpc[t] \notin {"none", "new", "dead"}

\* a thread object start() can still create
FreshThreads == {t \in Workers : wpc[t] = "none"}

\* heartbeat_protocol.py:88: the guard of start()
StartReturnsEarly == heartbeat_thread # 0 /\ IsAlive(heartbeat_thread)

\* heartbeat_protocol.py:87-89: start() is called; it returns at once when the
\* worker thread is alive
StartCall(c) ==
  /\ cpc[c] = "idle"
  /\ FreshThreads # {}
  /\ cpc' = [cpc EXCEPT ![c] = IF StartReturnsEarly THEN "idle" ELSE "start_clear"]
  /\ start_called' = TRUE
  /\ UNCHANGED <<memVars, callV, is_local, statV, cycV, stop_event,
                 heartbeat_requested, user_input_queue, output_queue,
                 heartbeat_thread, wpc, cjoin, spc,
                 attV, extV>>

\* heartbeat_protocol.py:90
StartClear(c) ==
  /\ cpc[c] = "start_clear"
  /\ stop_event' = FALSE
  /\ stop_cycles' = [w \in Workers |-> 0]
  /\ cpc' = [cpc EXCEPT ![c] = "start_new"]
  /\ UNCHANGED <<memVars, is_local, statV, cycV, heartbeat_requested,
                 user_input_queue, output_queue, heartbeat_thread, wpc, cjoin,
                 spc, n_put, user_log, midV, sets_pending, other_wake,
                 start_called, cyc, out_taken, consec_fail,
                 attV, extV>>

\* heartbeat_protocol.py:91: a new thread object is stored in the field
StartNew(c) ==
  /\ cpc[c] = "start_new"
  /\ FreshThreads # {}
  /\ LET t == CHOOSE x \in FreshThreads : \A y \in FreshThreads : x <= y
     IN /\ heartbeat_thread' = t
        /\ wpc' = [wpc EXCEPT ![t] = "new"]
  /\ cpc' = [cpc EXCEPT ![c] = "start_run"]
  /\ UNCHANGED <<memVars, histVars, is_local, statV, cycV, stop_event,
                 heartbeat_requested, user_input_queue, output_queue, cjoin,
                 spc, extV>>

\* heartbeat_protocol.py:92: self._heartbeat_thread.start() reads the field
\* again; starting a thread twice raises RuntimeError and start() ends there
StartRun(c) ==
  /\ cpc[c] = "start_run"
  /\ IF wpc[heartbeat_thread] = "new"
       THEN /\ wpc' = [wpc EXCEPT ![heartbeat_thread] = "loop"]
            /\ cpc' = [cpc EXCEPT ![c] = "start_state"]
       ELSE /\ cpc' = [cpc EXCEPT ![c] = "idle"]
            /\ UNCHANGED wpc
  /\ UNCHANGED <<memVars, histVars, is_local, statV, cycV, stop_event,
                 heartbeat_requested, user_input_queue, output_queue,
                 heartbeat_thread, cjoin, spc, extV>>

\* heartbeat_protocol.py:93
StartState(c) ==
  /\ cpc[c] = "start_state"
  /\ state' = "IDLE"
  /\ cpc' = [cpc EXCEPT ![c] = "idle"]
  /\ UNCHANGED <<memVars, histVars, is_local, beat_count, missed_beats,
                 heartbeat_history, cycV, stop_event, heartbeat_requested,
                 user_input_queue, output_queue, heartbeat_thread, wpc, cjoin,
                 spc, extV>>

\* heartbeat_protocol.py:96-97: stop() is called and sets the stop flag
StopCall(c) ==
  /\ cpc[c] = "idle"
  /\ stop_event' = TRUE
  /\ cpc' = [cpc EXCEPT ![c] = "stop_read"]
  /\ UNCHANGED <<memVars, histVars, is_local, statV, cycV,
                 heartbeat_requested, user_input_queue, output_queue,
                 heartbeat_thread, wpc, cjoin, spc, extV>>

\* heartbeat_protocol.py:98-99: join() is entered; joining a thread that was
\* never started raises RuntimeError and stop() ends there
StopRead(c) ==
  /\ cpc[c] = "stop_read"
  /\ IF heartbeat_thread = 0
       THEN /\ cpc' = [cpc EXCEPT ![c] = "stop_state"]
            /\ UNCHANGED cjoin
       ELSE IF wpc[heartbeat_thread] = "new"
         THEN /\ cpc' = [cpc EXCEPT ![c] = "idle"]
              /\ UNCHANGED cjoin
         ELSE /\ cpc' = [cpc EXCEPT ![c] = "stop_join"]
              /\ cjoin' = [cjoin EXCEPT ![c] = heartbeat_thread]
  /\ UNCHANGED <<memVars, histVars, is_local, statV, cycV, stop_event,
                 heartbeat_requested, user_input_queue, output_queue,
                 heartbeat_thread, wpc, spc, extV>>

\* heartbeat_protocol.py:99: join() returns because the thread has finished
JoinReturn(c) ==
  /\ cpc[c] = "stop_join"
  /\ wpc[cjoin[c]] = "dead"
  /\ cpc' = [cpc EXCEPT ![c] = "stop_state"]
  /\ cjoin' = [cjoin EXCEPT ![c] = 0]
  /\ UNCHANGED <<memVars, histVars, is_local, statV, cycV, stop_event,
                 heartbeat_requested, user_input_queue, output_queue,
                 heartbeat_thread, wpc, spc, extV>>

\* heartbeat_protocol.py:99: join(timeout=5.0) returns because the timeout
\* elapsed while the thread is still running
JoinTimeout(c) ==
  /\ cpc[c] = "stop_join"
  /\ wpc[cjoin[c]] # "dead"
  /\ cpc' = [cpc EXCEPT ![c] = "stop_state"]
  /\ cjoin' = [cjoin EXCEPT ![c] = 0]
  /\ UNCHANGED <<memVars, histVars, is_local, statV, cycV, stop_event,
                 heartbeat_requested, user_input_queue, output_queue,
                 heartbeat_thread, wpc, spc, extV>>

\* heartbeat_protocol.py:100
StopState(c) ==
  /\ cpc[c] = "stop_state"
  /\ state' = "SHUTDOWN"
  /\ cpc' = [cpc EXCEPT ![c] = "idle"]
  /\ start_called' = FALSE
  /\ UNCHANGED <<memVars, callV, is_local, beat_count, missed_beats,
                 heartbeat_history, cycV, stop_event, heartbeat_requested,
                 user_input_queue, output_queue, heartbeat_thread, wpc, cjoin,
                 spc,
                 attV, extV>>

\* a cycle is in progress: a worker is inside `with self._lock`
\* (heartbeat_protocol.py:132-196)
InCycle(w) == wpc[w] \in {"drain", "context", "llm", "finish"}

\* the worker holding the cycle lock has finished its drain loop
PastDrain == lock_owner # 0 /\ wpc[lock_owner] \in {"context", "llm", "finish"}

\* heartbeat_protocol.py:104: the input is queued; inputs are numbered in the
\* order of their put
SendPut ==
  /\ spc = "idle"
  /\ n_put < MaxInputs
  /\ n_put' = n_put + 1
  /\ user_input_queue' = Append(user_input_queue, n_put + 1)
  /\ mid_early' = IF lock_owner # 0 /\ ~PastDrain
                    THEN mid_early \cup {n_put + 1} ELSE mid_early
  /\ mid_late' = IF PastDrain THEN mid_late \cup {n_put + 1} ELSE mid_late
  /\ spc' = "send_set"
  /\ UNCHANGED <<memVars, is_local, statV, cycV, ctlV, stop_event,
                 heartbeat_requested, output_queue, heartbeat_thread, wpc,
                 user_log, carried, sets_pending, other_wake, stop_cycles,
                 start_called, cyc, out_taken, consec_fail,
                 attV, extV>>

\* heartbeat_protocol.py:105
SendSet ==
  /\ spc = "send_set"
  /\ heartbeat_requested' = TRUE
  /\ sets_pending' = TRUE
  /\ spc' = "idle"
  /\ UNCHANGED <<memVars, is_local, statV, cycV, ctlV, stop_event,
                 user_input_queue, output_queue, heartbeat_thread, wpc,
                 n_put, user_log, midV, other_wake, stop_cycles,
                 start_called, cyc, out_taken, consec_fail,
                 attV, extV>>

\* nexuss_service.py:67-70: POST /beat sets the wake flag directly (a request
\* made while the flag is set leaves the flag as it is)
BeatRequest ==
  /\ ~heartbeat_requested
  /\ heartbeat_requested' = TRUE
  /\ sets_pending' = TRUE
  /\ other_wake' = TRUE
  /\ UNCHANGED <<memVars, is_local, statV, cycV, ctlV, spc, stop_event,
                 user_input_queue, output_queue, heartbeat_thread, wpc,
                 n_put, user_log, midV, stop_cycles, start_called, cyc, out_taken, consec_fail,
                 attV, extV>>

\* heartbeat_protocol.py:107-111: a consumer takes the oldest output
GetOutput ==
  /\ output_queue # <<>>
  /\ output_queue' = Tail(output_queue)
  /\ out_taken' = Append(out_taken, Head(output_queue))
  /\ UNCHANGED <<memVars, is_local, statV, cycV, ctlV, spc,
                 stop_event, heartbeat_requested, user_input_queue,
                 heartbeat_thread, wpc, n_put, user_log, midV, sets_pending,
                 other_wake, stop_cycles, start_called, cyc, consec_fail,
                 attV, extV>>

\* ----------------------------------------------- scheduler: the worker
\* heartbeat_protocol.py:115,119: the worker's test self._stop_event.is_set()
StopRequested_TestsWake(stopEv, wakeEv) == wakeEv

StopRequested(stopEv, wakeEv) == stopEv

\* heartbeat_protocol.py:115
LoopTest(w) ==
  /\ wpc[w] = "loop"
  /\ wpc' = [wpc EXCEPT ![w] = IF StopRequested(stop_event, heartbeat_requested)
                                   THEN "dead" ELSE "wait"]
  /\ UNCHANGED <<memVars, histVars, is_local, statV, cycV, ctlV, spc,
                 stop_event, heartbeat_requested, user_input_queue,
                 output_queue, heartbeat_thread, extV>>

\* heartbeat_protocol.py:117: wait() returns True because the flag is set
WaitSignaled(w) ==
  /\ wpc[w] = "wait"
  /\ heartbeat_requested
  /\ triggered' = [triggered EXCEPT ![w] = TRUE]
  /\ sets_pending' = FALSE
  /\ wpc' = [wpc EXCEPT ![w] = "clear"]
  /\ UNCHANGED <<memVars, is_local, statV, ctlV, spc, stop_event,
                 heartbeat_requested, user_input_queue, output_queue,
                 heartbeat_thread, lock_owner, user_messages, llm_messages,
                 n_put, user_log, midV, other_wake, stop_cycles, start_called, cyc, out_taken, consec_fail,
                 attV, extV>>

\* heartbeat_protocol.py:117: wait() returns False because the interval
\* elapsed with the flag clear
WaitTimeout(w) ==
  /\ wpc[w] = "wait"
  /\ ~heartbeat_requested
  /\ triggered' = [triggered EXCEPT ![w] = FALSE]
  /\ wpc' = [wpc EXCEPT ![w] = "clear"]
  /\ UNCHANGED <<memVars, histVars, is_local, statV, ctlV, spc, stop_event,
                 heartbeat_requested, user_input_queue, output_queue,
                 heartbeat_thread, lock_owner, user_messages, llm_messages, extV>>

\* heartbeat_protocol.py:118: the wake flag after the worker has woken up
FlagAfterWake_Keeps(flag) == flag

FlagAfterWake(flag) == FALSE

\* heartbeat_protocol.py:118-120: the flag is cleared, then the stop flag is
\* tested (the clear touches only the wake flag and the test reads only the
\* stop flag, so the two lines are one step)
ClearAndCheck(w) ==
  /\ wpc[w] = "clear"
  /\ heartbeat_requested' = FlagAfterWake(heartbeat_requested)
  /\ LET stop == StopRequested(stop_event, FlagAfterWake(heartbeat_requested))
     IN /\ wpc' = [wpc EXCEPT ![w] = IF stop THEN "dead" ELSE "exec"]
        /\ triggered' = [triggered EXCEPT ![w] = IF stop THEN FALSE ELSE @]
  /\ UNCHANGED <<memVars, histVars, is_local, statV, ctlV, spc, stop_event,
                 user_input_queue, output_queue, heartbeat_thread, lock_owner,
                 user_messages, llm_messages, extV>>

\* heartbeat_protocol.py:132: `with self._lock` can be entered
LockFree_NoLock(owner) == TRUE

LockFree(owner) == owner = 0

\* heartbeat_protocol.py:132-138: the cycle lock is taken and the cycle begins
\* (a run is cut off after maxBeats cycles)
CycleBegin(w, maxBeats) ==
  /\ wpc[w] = "exec"
  /\ LockFree(lock_owner)
  /\ beat_count < maxBeats
  /\ lock_owner' = w
  /\ beat_count' = beat_count + 1
  /\ state' = "HEARTBEAT"
  /\ user_messages' = [user_messages EXCEPT ![w] = <<>>]
  /\ stop_cycles' = [stop_cycles EXCEPT ![w] = @ + (IF stop_event THEN 1 ELSE 0)]
  /\ wpc' = [wpc EXCEPT ![w] = "drain"]
  /\ UNCHANGED <<memVars, is_local, missed_beats, heartbeat_history, ctlV,
                 spc, stop_event, heartbeat_requested, user_input_queue,
                 output_queue, heartbeat_thread, triggered, llm_messages,
                 n_put, user_log, midV, sets_pending, other_wake,
                 start_called, cyc, out_taken, consec_fail,
                 attV, extV>>

\* heartbeat_protocol.py:141: where the drained input goes in user_messages
Drained_Prepend(msgs, x) == <<x>> \o msgs

Drained(msgs, x) == Append(msgs, x)

\* heartbeat_protocol.py:139-141: one pass of the drain loop
DrainOne(w) ==
  /\ wpc[w] = "drain"
  /\ user_input_queue # <<>>
  /\ user_messages' = [user_messages EXCEPT ![w] = Drained(@, Head(user_input_queue))]
  /\ user_input_queue' = Tail(user_input_queue)
  /\ UNCHANGED <<memVars, histVars, is_local, statV, ctlV, spc, stop_event,
                 heartbeat_requested, output_queue, heartbeat_thread, wpc,
                 lock_owner, triggered, llm_messages, extV>>

RECURSIVE AddAllToRecall(_, _, _)
\* heartbeat_protocol.py:145-146
AddAllToRecall(buf, role, msgs) ==
  IF msgs = <<>> THEN buf
  ELSE AddAllToRecall(add_to_recall(buf, Message(role, Head(msgs))), role, Tail(msgs))

\* heartbeat_protocol.py:139: the test that ends the drain loop
DrainFinished(queue, msgs) == queue = <<>>

\* heartbeat_protocol.py:139,145-146: the drain loop ends and the drained
\* inputs are appended to recall
DrainDone(w) ==
  /\ wpc[w] = "drain"
  /\ DrainFinished(user_input_queue, user_messages[w])
  /\ recall' = AddAllToRecall(recall, "user", user_messages[w])
  /\ user_log' = user_log \o user_messages[w]
  /\ cyc' = [cyc EXCEPT !.rec =
                @ \o [i \in 1..Len(user_messages[w]) |->
                        Message("user", user_messages[w][i])]]
  /\ wpc' = [wpc EXCEPT ![w] = "context"]
  /\ UNCHANGED <<core, core_file, mem_result, appended, last_call, is_local,
                 statV, cycV, ctlV, spc, stop_event, heartbeat_requested,
                 user_input_queue, output_queue, heartbeat_thread,
                 n_put, midV, sets_pending, other_wake, stop_cycles,
                 start_called, out_taken, consec_fail,
                 archival_index, attV, arcV, extV>>

\* attention_mechanism.py:42-51: the recall entries put into the context; the
\* inputs of the scheduler model are short, so the whole buffer fits the budget
ContextRecall(buf) == SubSeq(buf, 1, Len(buf))

\* heartbeat_protocol.py:160-172: the inputs named in the final user message
\* (local backend: the last one; remote backend: all of them)
HintInputs_FromQueue(local, msgs, queue) ==
  IF local /\ msgs # <<>>
    THEN <<(msgs \o queue)[Len(msgs \o queue)]>> ELSE msgs \o queue

HintInputs(local, msgs, queue) ==
  IF local /\ msgs # <<>> THEN <<msgs[Len(msgs)]>> ELSE msgs

\* the cycle lock is released; the locals of the cycle are dead from here on
\* and are reset
LeaveCycle(w) ==
  /\ lock_owner' = 0
  /\ user_messages' = [user_messages EXCEPT ![w] = <<>>]
  /\ llm_messages' = [llm_messages EXCEPT ![w] = NoMessages]
  /\ triggered' = [triggered EXCEPT ![w] = FALSE]
  /\ carried' = mid_late
  /\ mid_early' = {}
  /\ mid_late' = {}
  /\ cyc' = NoCycle

\* heartbeat_protocol.py:148-178: the prompt and the context are built and the
\* backend is about to be called; a local backend with no input returns
\* (line 175); an exception raised by this code leaves the cycle (fault)
\* heartbeat_protocol.py:173-175: the cycle ends without a backend call
SkipsBackend_Never(local, msgs) == FALSE

SkipsBackend(local, msgs) == local /\ msgs = <<>>

BuildContext(w, faults) ==
  /\ wpc[w] = "context"
  /\ \E fault \in faults :
       IF fault
         THEN /\ wpc' = [wpc EXCEPT ![w] = "except"]
              /\ LeaveCycle(w)
              /\ UNCHANGED <<core, archival_index, state, consec_fail>>
         ELSE /\ core' = get_core_memory(core)
              /\ archival_index' =
                   IF user_messages[w] # <<>>
                     THEN search_archival(archival_index,
                                          user_messages[w][Len(user_messages[w])],
                                          CONTEXT_SEARCH_LIMIT, {}).index
                     ELSE archival_index
              /\ IF SkipsBackend(is_local, user_messages[w])
                   THEN /\ wpc' = [wpc EXCEPT ![w] = "loop"]
                        /\ LeaveCycle(w)
                        /\ consec_fail' = 0
                        /\ UNCHANGED state
                   ELSE /\ llm_messages' = [llm_messages EXCEPT ![w] =
                              [context |-> ContextRecall(recall),
                               final |-> HintInputs(is_local, user_messages[w],
                                                    user_input_queue),
                               kind |-> IF user_messages[w] # <<>>
                                          THEN "process" ELSE "tick"]]
                        /\ state' = "THINKING"
                        /\ cyc' = [cyc EXCEPT !.calls = @ + 1]
                        /\ wpc' = [wpc EXCEPT ![w] = "llm"]
                        /\ UNCHANGED <<lock_owner, user_messages, triggered, midV,
                                       consec_fail>>
  /\ UNCHANGED <<core_file, recall, mem_result, appended, last_call, is_local,
                 beat_count, missed_beats, heartbeat_history, ctlV, spc,
                 stop_event, heartbeat_requested, user_input_queue,
                 output_queue, heartbeat_thread,
                 n_put, user_log, sets_pending, other_wake, stop_cycles,
                 start_called, out_taken, attV, arcV, extV>>

\* ---------------------------------------------- scheduler: backend reply
\* the text of the assistant reply and of a send_message call (0 is "")
ReplyText == 1
SentText == 2

\* a tool call of a reply: tc.function.name and the keys of
\* tc.function.arguments (heartbeat_protocol.py:206-207)
ToolCall(name, keys) == [name |-> name, arg_keys |-> keys]

\* a tool call whose arguments are the ones the skill declares
TC(name) == ToolCall(name, {})

\* the tool-call lists offered by the modelled backend; "no_such_skill" is
\* not registered, the handler of "throwing_skill" raises, the output of
\* "opaque_skill" is an object json.dumps cannot serialise, and one call
\* carries an argument called "name"
ToolCallLists ==
  {<<>>, <<TC("request_heartbeat")>>, <<TC("send_message")>>,
   <<TC("no_such_skill"), TC("request_heartbeat")>>,
   <<TC("throwing_skill"), TC("send_message")>>,
   <<TC("send_message"), TC("opaque_skill")>>,
   <<ToolCall("send_message", {"message", "name"}), TC("request_heartbeat")>>}

\* the names of the calls of a tool-call list
Names(calls) == [i \in 1..Len(calls) |-> calls[i].name]

\* what self.llm.chat() can do: raise, return a reply without message, or
\* return a message; a local backend never returns tool calls
\* (local_model_wrapper.py:145-146)
Responses(local) ==
  {[kind |-> "raise", content |-> 0, tool_calls |-> <<>>],
   [kind |-> "no_message", content |-> 0, tool_calls |-> <<>>]}
  \cup {[kind |-> "message", content |-> c, tool_calls |-> t] :
          c \in {0, ReplyText},
          t \in IF local THEN {<<>>} ELSE ToolCallLists}

\* the replies used where the interleaving of the threads is explored: a text
\* reply, and for a tool-capable backend a request_heartbeat call
PlainResponses(local) ==
  {r \in Responses(local) :
     /\ r.kind = "message"
     /\ \/ r.content = ReplyText /\ r.tool_calls = <<>>
        \/ r.content = 0 /\ r.tool_calls = <<TC("request_heartbeat")>>}

\* json.dumps({"name": ..., "result": ...}) of heartbeat_protocol.py:212-214,
\* as a text identifier
ToolResultText(name, ok) ==
  CASE name = "request_heartbeat" -> 11
    [] name = "send_message" -> 12
    [] OTHER -> IF ok THEN 13 ELSE 14

\* skill_registry.py:37-48: the outcome of SkillRegistry.execute(name): an
\* unknown name and a handler that raises give a failed result
SkillExecute(name) ==
  [success |-> name \notin {"no_such_skill", "throwing_skill"},
   raised |-> FALSE]

\* heartbeat_protocol.py:209 with skill_registry.py:37: the call
\* execute(func_name, **func_args) cannot bind its arguments when func_args
\* has a key that is a parameter of execute (TypeError at the call)
BindFails(keys) == keys \cap {"self", "name"} # {}

\* builtin_skills.py:97-99 and 108-111: what the handler of a skill does to
\* the wake flag and the output queue
SkillEffect(name, st) ==
  CASE name = "request_heartbeat" -> [st EXCEPT !.flag = TRUE, !.sets = TRUE]
    [] name = "send_message" ->
         [st EXCEPT !.out = Append(@, <<"message", SentText>>)]
    [] OTHER -> st

\* heartbeat_protocol.py:206-214: one tool call: the dispatcher is invoked and
\* the result is appended to the local message list; an exception out of the
\* call of the dispatcher or out of json.dumps ends the processing
ExecuteTool(tc, st) ==
  LET name == tc.name
      r == SkillExecute(name)
      st1 == [st EXCEPT !.invoked = Append(@, name)]
      st2 == SkillEffect(name, st1)
      entry == Message("tool", ToolResultText(name, r.success))
  IN IF BindFails(tc.arg_keys) THEN [st EXCEPT !.raised = TRUE]
     ELSE IF r.raised THEN [st1 EXCEPT !.raised = TRUE]
     ELSE IF name = "opaque_skill" THEN [st2 EXCEPT !.raised = TRUE]
     ELSE [st2 EXCEPT !.msgs = Append(@, entry)]

\* heartbeat_protocol.py:198-205: what the processing of a reply starts from:
\* the wake flag, no entry put yet, the local message list, no dispatcher call
ToolState0(flag, msgs) ==
  [flag |-> flag, out |-> <<>>, msgs |-> msgs, sets |-> FALSE,
   raised |-> FALSE, invoked |-> <<>>]

RECURSIVE ExecuteTools(_, _)
\* heartbeat_protocol.py:205-214
ExecuteTools(calls, st) ==
  IF calls = <<>> \/ st.raised THEN st
  ELSE ExecuteTools(Tail(calls), ExecuteTool(Head(calls), st))

\* heartbeat_protocol.py:184,187: the entry put on the output channel when the
\* backend call or the processing of its reply has raised
ErrorEntries_None == <<>>

ErrorEntries == <<<<"error", 0>>>>

\* heartbeat_protocol.py:216-217: the entry the scheduler publishes for a reply
OwnMessage_Always(resp) ==
  IF resp.content # 0 THEN <<<<"message", resp.content>>>> ELSE <<>>

OwnMessage(resp) ==
  IF resp.content # 0 /\ resp.tool_calls = <<>>
    THEN <<<<"message", resp.content>>>> ELSE <<>>

RECURSIVE AppendAll(_, _)
\* the recall buffer after the messages of a list have been appended in order
AppendAll(buf, msgs) ==
  IF msgs = <<>> THEN buf
  ELSE AppendAll(add_to_recall(buf, Head(msgs)), Tail(msgs))

\* heartbeat_protocol.py:180-187 and 198-217: the backend call returns or
\* raises and the reply is processed
LLMReturn(w, resps) ==
  /\ wpc[w] = "llm"
  /\ \E resp \in resps :
       LET st0 == ToolState0(heartbeat_requested, llm_messages[w].context)
           st1 == ExecuteTools(resp.tool_calls, st0)
           assistant == Message("assistant", resp.content)
           puts == CASE resp.kind = "raise" -> ErrorEntries
                     [] resp.kind = "no_message" -> <<>>
                     [] OTHER -> st1.out \o (IF st1.raised THEN ErrorEntries
                                             ELSE OwnMessage(resp))
           recs == IF resp.kind = "message" THEN <<assistant>> ELSE <<>>
       IN /\ output_queue' = output_queue \o puts
          /\ recall' = AppendAll(recall, recs)
          /\ cyc' = [cyc EXCEPT !.out = @ \o puts, !.rec = @ \o recs,
                                !.resp = resp,
                                !.invoked = IF resp.kind = "message"
                                              THEN st1.invoked ELSE <<>>]
          /\ IF resp.kind = "message"
               THEN /\ state' = IF resp.tool_calls # <<>> THEN "EXECUTING" ELSE state
                    /\ heartbeat_requested' = st1.flag
                    /\ sets_pending' = (sets_pending \/ st1.sets)
                    /\ other_wake' = (other_wake \/ st1.sets)
                    /\ llm_messages' = [llm_messages EXCEPT ![w].context = st1.msgs]
               ELSE UNCHANGED <<state, heartbeat_requested, llm_messages,
                                sets_pending, other_wake>>
  /\ wpc' = [wpc EXCEPT ![w] = "finish"]
  /\ UNCHANGED <<core, core_file, mem_result, appended, last_call, is_local,
                 beat_count, missed_beats, heartbeat_history, ctlV, spc,
                 stop_event, user_input_queue, heartbeat_thread, lock_owner,
                 triggered, user_messages,
                 n_put, user_log, midV, stop_cycles, start_called, out_taken, consec_fail,
                 archival_index, attV, arcV, extV>>

\* heartbeat_protocol.py:189-193 (the fields the model tracks)
HeartbeatEvent(w) ==
  [beat_id |-> beat_count, pending_tasks |-> Len(user_messages[w])]

\* heartbeat_protocol.py:189-196: the event is recorded, the state returns to
\* IDLE, the missed-beat counter is reset and the lock is released
Finish(w) ==
  /\ wpc[w] = "finish"
  /\ heartbeat_history' = DequeAppend(heartbeat_history, HeartbeatEvent(w), HISTORY_MAXLEN)
  /\ state' = "IDLE"
  /\ missed_beats' = 0
  /\ consec_fail' = 0
  /\ LeaveCycle(w)
  /\ wpc' = [wpc EXCEPT ![w] = "loop"]
  /\ UNCHANGED <<memVars, is_local, beat_count, ctlV, spc, stop_event,
                 heartbeat_requested, user_input_queue, output_queue,
                 heartbeat_thread,
                 n_put, user_log, sets_pending, other_wake, stop_cycles,
                 start_called, out_taken,
                 attV, extV>>

\* heartbeat_protocol.py:122: where the worker goes on after an exception
\* has escaped the cycle
AfterExcept_Ends == "dead"

AfterExcept == "loop"

\* heartbeat_protocol.py:125: the test for the ERROR state
TooManyMissed_Total(missed, beats) == beats >= HEARTBEAT_MAX_MISSED

TooManyMissed(missed, beats) == missed >= HEARTBEAT_MAX_MISSED

\* heartbeat_protocol.py:122-127
Except(w) ==
  /\ wpc[w] = "except"
  /\ missed_beats' = missed_beats + 1
  /\ consec_fail' = consec_fail + 1
  /\ state' = IF TooManyMissed(missed_beats + 1, beat_count) THEN "ERROR" ELSE state
  /\ wpc' = [wpc EXCEPT ![w] = AfterExcept]
  /\ UNCHANGED <<memVars, n_put, user_log, midV, sets_pending, other_wake,
                 stop_cycles, cyc, out_taken, start_called, is_local, beat_count, heartbeat_history,
                 cycV, ctlV, spc, stop_event, heartbeat_requested,
                 user_input_queue, output_queue, heartbeat_thread,
                 attV, extV>>

\* ------------------------------------------------------- specifications
StartStep(c) ==
  StartCall(c) \/ StartClear(c) \/ StartNew(c) \/ StartRun(c) \/ StartState(c)

StopStep(c) ==
  StopCall(c) \/ StopRead(c) \/ JoinReturn(c) \/ JoinTimeout(c) \/ StopState(c)

SenderStep == SendPut \/ SendSet

\* one input is submitted in the run
SendOnce == n_put = 0 /\ SendPut

\* the steps of a worker whose cycles do not fail outside the backend call
WorkerStep(w) ==
  \/ LoopTest(w) \/ WaitSignaled(w) \/ WaitTimeout(w) \/ ClearAndCheck(w)
  \/ CycleBegin(w, MaxBeats) \/ DrainOne(w) \/ DrainDone(w) \/ BuildContext(w, {FALSE})
  \/ LLMReturn(w, PlainResponses(is_local)) \/ Finish(w)

\* the scheduler as the repository runs it: one thread calls start() and
\* stop() (src/Nexuss.py:135-139, src/nexuss_service.py:203-226), another
\* submits the inputs, and POST /beat raises the wake flag
NextHB ==
  \/ StartStep(1) \/ StopStep(1)
  \/ SenderStep
  \/ \E w \in Workers : WorkerStep(w)
  \/ BeatRequest

SpecHB == Init /\ [][NextHB]_vars

\* the scheduler when start() is called from two threads at once, so that two
\* worker threads can be alive
NextRace ==
  \/ \E c \in Callers : StartStep(c)
  \/ SenderStep
  \/ \E w \in Workers : WorkerStep(w)

SpecRace == Init /\ [][NextRace]_vars

\* the replies of a backend that either answers with a text or raises
FailResponses(local) ==
  {r \in Responses(local) :
     \/ r.kind = "raise"
     \/ r.kind = "message" /\ r.content = ReplyText /\ r.tool_calls = <<>>}

\* the steps of a worker whose cycles can fail: in the code before the
\* backend call (the exception escapes the cycle) and in the call
FaultyWorkerStep(w) ==
  \/ LoopTest(w) \/ WaitSignaled(w) \/ WaitTimeout(w) \/ ClearAndCheck(w)
  \/ CycleBegin(w, MaxFailBeats) \/ DrainOne(w) \/ DrainDone(w)
  \/ BuildContext(w, BOOLEAN) \/ LLMReturn(w, FailResponses(is_local))
  \/ Finish(w) \/ Except(w)

\* one started scheduler with failing cycles while one input is submitted;
\* the worker steps are taken eventually
NextErr ==
  \/ StartStep(1)
  \/ SendOnce \/ SendSet
  \/ \E w \in Workers : FaultyWorkerStep(w)

SpecErr ==
  Init /\ [][NextErr]_vars /\ \A w \in Workers : WF_vars(FaultyWorkerStep(w))

\* the steps of a worker whose backend gives every modelled reply
ReplyWorkerStep(w) ==
  \/ LoopTest(w) \/ WaitSignaled(w) \/ WaitTimeout(w) \/ ClearAndCheck(w)
  \/ CycleBegin(w, MaxBeats) \/ DrainOne(w) \/ DrainDone(w)
  \/ BuildContext(w, {FALSE}) \/ LLMReturn(w, Responses(is_local))
  \/ Finish(w)

\* one started scheduler, one submitted input and a host that takes the
\* outputs
NextReply ==
  \/ StartStep(1)
  \/ SendOnce \/ SendSet
  \/ \E w \in Workers : ReplyWorkerStep(w)
  \/ GetOutput

SpecReply == Init /\ [][NextReply]_vars

\* ------------------------------------------- attention assembly: the calls
\* the archival blocks of the stores build_context is called on: the words of
\* the content, its length (above and below the 200 characters of truncate)
\* and the importance and the tags it is archived with
BlockKinds ==
  {[id |-> 1, words |-> {1}, len |-> 300, importance |-> 1, tags |-> {"a"}],
   [id |-> 2, words |-> {2}, len |-> 20, importance |-> 2, tags |-> {}],
   [id |-> 3, words |-> {1, 2}, len |-> 300, importance |-> 2, tags |-> {"b"}]}

\* memory_system.py:80-84: the block add_to_archival stores for a content of
\* one of these kinds
ArchivalBlock(second, kind) ==
  NewArchivalBlock(kind, kind.tags, kind.importance, second)

\* memory_system.py:130-133: the records of an index whose blocks were all
\* saved
SavedFiles(index) ==
  [id \in {index[j].id : j \in 1..Len(index)} |->
     [valid |-> TRUE,
      data |-> CHOOSE b \in {index[j] : j \in 1..Len(index)} : b.id = id]]

\* the archival indexes reached by up to MaxBlocks add_to_archival calls made
\* in different clock seconds
ArchivalDraws ==
  UNION {{[i \in 1..n |-> ArchivalBlock(i, f[i])] : f \in [1..n -> BlockKinds]} :
           n \in 0..MaxBlocks}

\* the core stores reached by update_core_memory calls on the two keys
CoreDraws ==
  LET half == [len |-> CORE_MEMORY_LIMIT \div 2, txt |-> 1]
      one == CoreUpsert(<<>>, "persona", half)
  IN {<<>>, one, CoreUpsert(one, "user_info", half)}

\* the recall buffers reached by add_to_recall calls
RecallDraws ==
  UNION {[1..n -> {Message("user", t) : t \in {1, 2}}] :
           n \in 0..RECALL_MEMORY_LIMIT}

\* the system prompts passed: a short one and one that nearly fills the
\* window: with an empty core it leaves 4096 - 3423 - 500 = 173 tokens, two
\* more than three times the cost (57) of the excerpt of one long block
Prompts == {[id |-> 1, len |-> 400], [id |-> 2, len |-> 13692]}

\* the focus queries passed: None, a one-word text and a two-word text
Focuses == {0, 1, 3}

\* the store has been filled before the calls; the scheduler (of a
\* tool-capable backend) has not been started
AttInit ==
  /\ core \in CoreDraws
  /\ core_file = [valid |-> TRUE, data |-> core]
  /\ recall \in RecallDraws
  /\ archival_index \in ArchivalDraws
  /\ archival_files = SavedFiles(archival_index)
  /\ now = MaxBlocks
  /\ mem_result = "none"
  /\ appended = <<>>
  /\ last_call = [op |-> "none"]
  /\ HbInit /\ ~is_local
  /\ HistInit

\* attention_mechanism.py:21-59: one call of build_context
BuildContextCall ==
  \E prompt \in Prompts, focus \in Focuses :
    LET r == build_context(prompt, focus, core, archival_index, recall)
    IN /\ ctx_calls < MaxCtxCalls
       /\ core' = r.core
       /\ archival_index' = r.index
       /\ ctx_calls' = ctx_calls + 1
       /\ ctx_last' = [made |-> TRUE, prompt |-> prompt, focus |-> focus,
                       messages |-> r.messages, context |-> r.context,
                       repeat |-> /\ ctx_last.made
                                  /\ ctx_last.prompt = prompt
                                  /\ ctx_last.focus = focus]
       /\ UNCHANGED <<core_file, recall, mem_result, appended, last_call,
                      hbVars, callV, start_called, arcV, arch_calls,
                      search_last, extV>>

\* memory_system.py:64-66: another caller appends to recall between two
\* build_context calls
AppendBetween ==
  /\ ctx_last.made
  /\ recall' = add_to_recall(recall, Message("user", 1))
  /\ ctx_last' = NoContext
  /\ UNCHANGED <<core, core_file, archival_index, mem_result, appended,
                 last_call, hbVars, callV, start_called, ctx_calls, arcV,
                 arch_calls, search_last, extV>>

NextAttention == BuildContextCall \/ AppendBetween
SpecAttention == AttInit /\ [][NextAttention]_vars

\* ------------------------------------------------- archival call actions
\* the limits of the callers: 5 (attention_mechanism.py:32) and 50
\* (config.py ARCHIVAL_SEARCH_LIMIT, builtin_skills.py:66), scaled to the
\* sizes of the modelled index: below and at the number of matches
SearchLimits == {1, 2}

\* builtin_skills.py:63-66: the tag filters (none, one tag, two tags)
TagFilters == {{}, {"a"}, {"a", "b"}}

\* the queries: one word, the other word, both words
Queries == {1, 2, 3}

SearchCount == IF search_last.made THEN search_last.n ELSE 0

\* memory_system.py:77-87, called by builtin_skills.py:49-52
AddToArchival ==
  \E kind \in BlockKinds, ioOk \in BOOLEAN :
    /\ arch_calls < MaxArchived
    /\ add_to_archival(kind, kind.tags, kind.importance, ioOk)
    /\ arch_calls' = arch_calls + 1
    /\ last_call' = [op |-> "archive", content |-> kind.id,
                     id |-> ArchivalId(kind.id, now), index |-> archival_index]
    /\ UNCHANGED <<core, core_file, recall, appended, now, hbVars, callV,
                   start_called, ctx_calls, ctx_last, search_last, extV>>

\* time.time() advances by a second between two calls
Tick ==
  /\ now < MaxClock
  /\ now' = now + 1
  /\ UNCHANGED <<core, core_file, recall, archival_index, archival_files,
                 mem_result, appended, last_call, hbVars, histVars, extV>>

\* memory_system.py:89-103, called by builtin_skills.py:64-66
SearchCall ==
  \E query \in Queries, limit \in SearchLimits, tags \in TagFilters :
    LET found == search_archival(archival_index, query, limit, tags)
    IN /\ SearchCount < MaxSearches
       /\ archival_index' = found.index
       /\ search_last' = [made |-> TRUE, n |-> SearchCount + 1, query |-> query,
                          limit |-> limit, tags |-> tags,
                          before |-> archival_index, after |-> found.index,
                          results |-> found.results]
       /\ UNCHANGED <<core, core_file, recall, mem_result, appended, last_call,
                      arcV, hbVars, callV, start_called, ctx_calls, ctx_last,
                      arch_calls, extV>>

NextArchival == AddToArchival \/ Tick
SpecArchival == Init /\ [][NextArchival]_vars

\* the archival indexes reached by up to MaxIndexed add_to_archival calls
\* made in different clock seconds
SearchDraws ==
  UNION {{[i \in 1..n |-> ArchivalBlock(i, f[i])] : f \in [1..n -> BlockKinds]} :
           n \in 0..MaxIndexed}

\* a store with archived blocks, before the first search
SearchInit ==
  /\ core = <<>>
  /\ core_file = [valid |-> TRUE, data |-> <<>>]
  /\ recall = <<>>
  /\ archival_index \in SearchDraws
  /\ archival_files = SavedFiles(archival_index)
  /\ now = MaxIndexed
  /\ mem_result = "none"
  /\ appended = <<>>
  /\ last_call = [op |-> "none"]
  /\ HbInit
  /\ HistInit

NextSearch == SearchCall
SpecSearch == SearchInit /\ [][NextSearch]_vars

\* --------------------------------------------------- recall read actions
\* builtin_skills.py:81-82: the limit is an argument of the tool call
\* (default 20); heartbeat_protocol.py and attention_mechanism.py read
\* without a limit
ReadLimits ==
  {[given |-> FALSE]} \cup
  {[given |-> TRUE, n |-> k] : k \in -1..(RECALL_MEMORY_LIMIT + 1)}

\* a store with a recall buffer, before the first read
ReadInit ==
  /\ core = <<>>
  /\ core_file = [valid |-> TRUE, data |-> <<>>]
  /\ recall \in RecallDraws
  /\ archival_index = <<>>
  /\ archival_files = <<>>
  /\ now = 0
  /\ mem_result = "none"
  /\ appended = <<>>
  /\ last_call = [op |-> "none"]
  /\ HbInit
  /\ HistInit

\* memory_system.py:68-71
GetRecallMessages ==
  \E limit \in ReadLimits :
    /\ last_call' = [op |-> "read", limit |-> limit, buf |-> recall,
                     result |-> get_recall_messages(recall, limit)]
    /\ UNCHANGED <<core, core_file, recall, archival_index, arcV, mem_result,
                   appended, hbVars, histVars, extV>>

NextRead == GetRecallMessages
SpecRead == ReadInit /\ [][NextRead]_vars

\* ------------------------------------------------- persistence actions
\* store calls in a run with restarts
MaxStoreCalls == 4
\* restarts in one run
MaxRestarts == 1

\* the contents written to the core in these runs
PersistContents ==
  {[len |-> CORE_MEMORY_LIMIT \div 2, txt |-> v] : v \in 1..NumVariants}

\* the call counted, and whether it ended with an exception; a run is
\* followed up to its first call that ends with an exception and the
\* restart after it
Counted ==
  /\ store_calls < MaxStoreCalls
  /\ ~save_failed
  /\ store_calls' = store_calls + 1
  /\ save_failed' = (save_failed \/ mem_result' = "raise")
  /\ UNCHANGED <<restarts, notPersV>>

\* memory_system.py:38-54
UpdateCoreP ==
  \E key \in Keys, content \in PersistContents, ioOk \in BOOLEAN :
    /\ update_core_memory(key, content, ioOk)
    /\ Counted
    /\ UNCHANGED <<recall, archival_index, arcV, appended, last_call, hbVars,
                   histVars, dels>>

\* memory_system.py:56-62
DeleteCoreP ==
  \E key \in Keys, ioOk \in BOOLEAN :
    /\ delete_core_memory(key, ioOk)
    /\ Counted
    /\ dels' = dels + (IF key \in DOMAIN core THEN 1 ELSE 0)
    /\ UNCHANGED <<recall, archival_index, arcV, appended, last_call, hbVars,
                   histVars>>

\* memory_system.py:77-87
AddToArchivalP ==
  \E kind \in BlockKinds, ioOk \in BOOLEAN :
    /\ add_to_archival(kind, kind.tags, kind.importance, ioOk)
    /\ Counted
    /\ UNCHANGED <<core, core_file, recall, now, appended, last_call, hbVars,
                   histVars, dels>>

\* memory_system.py:105-113
DeleteArchivalP ==
  \E i \in 1..Len(archival_index), ioOk \in BOOLEAN :
    /\ delete_archival(archival_index[i].id, ioOk)
    /\ Counted
    /\ dels' = dels + 1
    /\ UNCHANGED <<core, core_file, recall, now, appended, last_call, hbVars,
                   histVars>>

\* memory_system.py:64-66
AddToRecallP ==
  /\ recall' = add_to_recall(recall, Message("user", 1))
  /\ appended' = Append(appended, Message("user", 1))
  /\ mem_result' = "none"
  /\ Counted
  /\ UNCHANGED <<core, core_file, archival_index, arcV, last_call, hbVars,
                 histVars, dels>>

\* the process ends and a new one creates the store: memory_system.py:22-28
Restart ==
  /\ restarts < MaxRestarts
  /\ load_persistent_memory
  /\ restarts' = restarts + 1
  /\ appended' = <<>>
  /\ UNCHANGED <<now, last_call, hbVars, histVars, store_calls, save_failed,
                 dels, notPersV>>

NextPersist ==
  \/ UpdateCoreP \/ DeleteCoreP \/ AddToArchivalP \/ DeleteArchivalP
  \/ AddToRecallP \/ Restart
SpecPersist == Init /\ [][NextPersist]_vars

\* ------------------------------------------------------ startup actions
\* the record of a block, intact or corrupt (not parseable, or without the
\* fields the load reads)
ArchivalRecord(block, intact) ==
  IF intact THEN [valid |-> TRUE, data |-> block] ELSE [valid |-> FALSE]

\* the archival directories a process can find at its start: the records of
\* up to MaxIndexed blocks, any of them corrupt
FileDraws ==
  UNION {{[id \in {index[j].id : j \in 1..Len(index)} |->
             ArchivalRecord(CHOOSE b \in {index[j] : j \in 1..Len(index)} :
                              b.id = id, id \in intact)] :
            intact \in SUBSET {index[j].id : j \in 1..Len(index)}} :
           index \in SearchDraws}

\* a process at its start, before MemoryManager.__init__ has loaded the
\* records: the core record is intact or corrupt
LoadInit ==
  /\ core = <<>>
  /\ core_file \in [valid : BOOLEAN, data : CoreDraws]
  /\ recall = <<>>
  /\ archival_index = <<>>
  /\ archival_files \in FileDraws
  /\ now = MaxIndexed
  /\ mem_result = "none"
  /\ appended = <<>>
  /\ last_call = [op |-> "none"]
  /\ HbInit
  /\ HistInit

NextLoad == Restart
SpecLoad == LoadInit /\ [][NextLoad]_vars

\* --------------------------------- concurrent update_core_memory calls
\* update_core_memory calls per thread in one run
MaxThreadCalls == 2

\* the contents written concurrently: two of them fill the budget, one more
\* character exceeds it
RaceContents ==
  {[len |-> CORE_MEMORY_LIMIT \div 2, txt |-> 1],
   [len |-> CORE_MEMORY_LIMIT \div 2 + 1, txt |-> 1]}

\* what the steps of the concurrent calls leave alone
LockFrame ==
  UNCHANGED <<recall, archival_index, arcV, mem_result, appended, last_call,
              hbVars, histVars, notLockV, lcyc>>

\* the end of a with self._lock block: the lock after it
LockAfterCall_Kept(t) == t

LockAfterCall(t) == 0

\* threading.RLock.acquire: the lock is free (a thread in update_core_memory
\* does not hold it yet)
CanAcquire_Always(t) == TRUE

CanAcquire(t) == mem_lock = 0

\* a thread calls update_core_memory(key, content)
UCall(t) ==
  \E key \in Keys, content \in RaceContents :
    /\ upc[t].pc \in {"idle", "done"}
    /\ upc[t].calls < MaxThreadCalls
    /\ upc' = [upc EXCEPT ![t] = [pc |-> "enter", key |-> key,
                                  content |-> content,
                                  calls |-> upc[t].calls + 1]]
    /\ UNCHANGED <<core, core_file, mem_lock, shadow>>
    /\ LockFrame

\* memory_system.py:39: with self._lock
UAcquire(t) ==
  /\ upc[t].pc = "enter"
  /\ CanAcquire(t)
  /\ mem_lock' = t
  /\ upc' = [upc EXCEPT ![t].pc = "check"]
  /\ shadow' =
       LET fits == CoreFits(shadow.core, upc[t].key, upc[t].content)
       IN [core |-> IF fits THEN CoreUpsert(shadow.core, upc[t].key,
                                            upc[t].content)
                     ELSE shadow.core,
           accepted |-> [shadow.accepted EXCEPT ![t] = fits]]
  /\ UNCHANGED <<core, core_file>>
  /\ LockFrame

\* memory_system.py:40-43: the sum over the other blocks and the test
UCheck(t) ==
  /\ upc[t].pc = "check"
  /\ upc' = [upc EXCEPT ![t] =
               IF CoreFits(core, upc[t].key, upc[t].content)
                 THEN [@ EXCEPT !.pc = "upsert"]
                 ELSE [pc |-> "exit", key |-> @.key, content |-> @.content,
                       calls |-> @.calls, result |-> "false"]]
  /\ UNCHANGED <<core, core_file, mem_lock, shadow>>
  /\ LockFrame

\* memory_system.py:44-51
UUpsert(t) ==
  /\ upc[t].pc = "upsert"
  /\ core' = CoreUpsert(core, upc[t].key, upc[t].content)
  /\ upc' = [upc EXCEPT ![t].pc = "save"]
  /\ UNCHANGED <<core_file, mem_lock, shadow>>
  /\ LockFrame

\* memory_system.py:52-54, 125-128
USave(t) ==
  \E ioOk \in BOOLEAN :
    /\ upc[t].pc = "save"
    /\ core_file' \in SaveCoreOutcomes(core, core_file, ioOk)
    /\ upc' = [upc EXCEPT ![t] =
                 [pc |-> "exit", key |-> @.key, content |-> @.content,
                  calls |-> @.calls,
                  result |-> IF ioOk THEN "true" ELSE "raise"]]
    /\ UNCHANGED <<core, mem_lock, shadow>>
    /\ LockFrame

\* the end of the with block: the lock is released, also when the save raised
UExit(t) ==
  /\ upc[t].pc = "exit"
  /\ mem_lock' = IF mem_lock = t THEN LockAfterCall(t) ELSE mem_lock
  /\ upc' = [upc EXCEPT ![t].pc = "done"]
  /\ UNCHANGED <<core, core_file, shadow>>
  /\ LockFrame

NextConc ==
  \E t \in StoreThreads :
    UCall(t) \/ UAcquire(t) \/ UCheck(t) \/ UUpsert(t) \/ USave(t) \/ UExit(t)
SpecConc == Init /\ [][NextConc]_vars

\* ------------------------------------- the store lock during a cycle
\* cycles of the worker in one run
MaxLockCycles == 1

\* the thread of the worker and the thread of another caller of the store
WorkerThread == 1
OtherThread == 2

\* the store calls of a cycle whose bodies are one step each: add_to_recall
\* of the inputs (heartbeat_protocol.py:146-147), the reads of build_context
\* (attention_mechanism.py:24-43), add_to_recall of the reply (line 200) and
\* get_memory_stats (line 190)
StoreCalls == {"recall", "context", "reply", "stats"}

\* what the steps of the cycle leave alone
CycleFrame ==
  UNCHANGED <<memVars, hbVars, histVars, notLockV, upc, shadow>>

\* heartbeat_protocol.py:131-136: a cycle begins
LBegin ==
  /\ lcyc.pc = <<"idle">>
  /\ lcyc.n < MaxLockCycles
  /\ lcyc' = [pc |-> <<"enter", "recall">>, n |-> lcyc.n + 1, tool |-> FALSE]
  /\ UNCHANGED mem_lock
  /\ CycleFrame

\* with self._lock of one of the store calls of the cycle
LStoreEnter ==
  \E c \in StoreCalls :
    /\ lcyc.pc = <<"enter", c>>
    /\ CanAcquire(WorkerThread)
    /\ mem_lock' = WorkerThread
    /\ lcyc' = [lcyc EXCEPT !.pc = <<"in", c>>]
    /\ CycleFrame

\* the body of the store call and the end of its with block; the cycle goes
\* on to its next step
LStoreExit ==
  \E c \in StoreCalls :
    /\ lcyc.pc = <<"in", c>>
    /\ mem_lock' = LockAfterCall(WorkerThread)
    /\ lcyc' = [lcyc EXCEPT !.pc =
                  CASE c = "recall" -> <<"enter", "context">>
                    [] c = "context" -> <<"backend">>
                    [] c = "reply" -> IF lcyc.tool THEN <<"tool">>
                                      ELSE <<"enter", "stats">>
                    [] c = "stats" -> <<"idle">>]
    /\ CycleFrame

\* heartbeat_protocol.py:179-187: the backend call returns a reply with or
\* without a tool call, or raises
LBackendReturn ==
  \E outcome \in {"reply", "tool_call", "raise"} :
    /\ lcyc.pc = <<"backend">>
    /\ lcyc' = [lcyc EXCEPT !.pc = IF outcome = "raise"
                                     THEN <<"enter", "stats">>
                                     ELSE <<"enter", "reply">>,
                             !.tool = (outcome = "tool_call")]
    /\ UNCHANGED mem_lock
    /\ CycleFrame

\* heartbeat_protocol.py:202-208, builtin_skills.py:24-26: the handler of
\* core_memory_update calls update_core_memory on the thread of the worker
LToolCall ==
  \E key \in Keys, content \in RaceContents :
    /\ lcyc.pc = <<"tool">>
    /\ upc[WorkerThread].pc \in {"idle", "done"}
    /\ upc' = [upc EXCEPT ![WorkerThread] =
                 [pc |-> "enter", key |-> key, content |-> content,
                  calls |-> upc[WorkerThread].calls + 1]]
    /\ lcyc' = [lcyc EXCEPT !.pc = <<"handler">>]
    /\ UNCHANGED <<memVars, hbVars, histVars, notLockV, mem_lock, shadow>>

\* the handler returns (the dispatcher catches an exception of the save)
LToolReturn ==
  /\ lcyc.pc = <<"handler">>
  /\ upc[WorkerThread].pc = "done"
  /\ lcyc' = [lcyc EXCEPT !.pc = <<"enter", "stats">>]
  /\ UNCHANGED mem_lock
  /\ CycleFrame

\* the steps of update_core_memory on a thread
UpdateSteps(t) ==
  UAcquire(t) \/ UCheck(t) \/ UUpsert(t) \/ USave(t) \/ UExit(t)

NextScope ==
  \/ LBegin \/ LStoreEnter \/ LStoreExit \/ LBackendReturn
  \/ LToolCall \/ LToolReturn
  \/ UpdateSteps(WorkerThread)
  \/ UCall(OtherThread) \/ UpdateSteps(OtherThread)
SpecScope == Init /\ [][NextScope]_vars

\* ------------------------------------------------- LocalModel.chat call
\* messages in one LocalModel.chat call
MaxChatLen == 4

\* the message sequences passed: any roles, the content of the i-th message
\* is the piece i
ChatDraws ==
  UNION {{[i \in 1..n |-> [role |-> f[i], content |-> <<i>>]] :
            f \in [1..n -> Roles]} : n \in 0..MaxChatLen}

ChatInit ==
  /\ MemInit
  /\ HbInit
  /\ HistoryInit
  /\ SkillIdle
  /\ AgentIdle
  /\ chat_in \in ChatDraws
  /\ chat_out = NoChat

\* local_model_wrapper.py:63-117
Chat ==
  /\ chat_out = NoChat
  /\ chat_out' = NormalizeChat(chat_in)
  /\ UNCHANGED <<memVars, hbVars, histVars, notChatV, chat_in>>

NextChat == Chat
SpecChat == ChatInit /\ [][NextChat]_vars

\* ------------------------------------------------------- skill dispatch
\* tool calls dispatched in one run
MaxSkillCalls == 3

\* the names a tool call can carry: two of the registered memory skills and
\* a name that is not registered
SkillNames == {"core_memory_update", "core_memory_read", "no_such_skill"}

\* the contents a core_memory_update call writes
SkillContents ==
  {[len |-> l, txt |-> 1] : l \in {CORE_MEMORY_LIMIT \div 2, CORE_MEMORY_LIMIT}}

\* builtin_skills.py:24-26: CoreMemoryUpdateSkill.execute, given what
\* update_core_memory returned
CoreUpdateResult(ok) ==
  SkillResult(ok, IF ok THEN "Core updated" ELSE "Limit exceeded", None)

\* skill_registry.py:38-40: the name is not registered
NotFoundResult == SkillResult(FALSE, None, "Skill not found")

\* skill_registry.py:46-48: the handler raised; the error is str(e)
RaisedResult == SkillResult(FALSE, None, "str(e)")

\* skill_registry.py:37-48 with builtin_skills.py:24-26 and 35-36:
\* SkillRegistry.execute(name, **kwargs)
RegistryExecute(name, key, content, ioOk) ==
  CASE name = "core_memory_update" ->
         /\ update_core_memory(key, content, ioOk)
         /\ skill_result' = IF mem_result' = "raise" THEN RaisedResult
                             ELSE CoreUpdateResult(mem_result' = "true")
    [] name = "core_memory_read" ->
         /\ core' = get_core_memory(core)
         /\ skill_result' = SkillResult(TRUE, "core text", None)
         /\ UNCHANGED <<core_file, mem_result>>
    [] OTHER ->
         /\ skill_result' = NotFoundResult
         /\ UNCHANGED <<core, core_file, mem_result>>

\* heartbeat_protocol.py:212-214: the object of the tool message
ToolMessage(name, result) ==
  [name |-> name,
   result |-> IF result.success THEN result.output ELSE result.error]

\* heartbeat_protocol.py:206-214: one tool call of a reply is dispatched and
\* its tool message is built
DispatchTool ==
  /\ skill_calls < MaxSkillCalls
  /\ \E name \in SkillNames, key \in Keys, content \in SkillContents,
        ioOk \in BOOLEAN :
       /\ RegistryExecute(name, key, content, ioOk)
       /\ tool_message' = ToolMessage(name, skill_result')
  /\ skill_calls' = skill_calls + 1
  /\ UNCHANGED <<recall, archival_index, arcV, appended, last_call, hbVars,
                 histVars, notSkillV>>

NextSkill == DispatchTool
SpecSkill == Init /\ [][NextSkill]_vars

\* ------------------------------------------------------------ agent chat
\* chat() calls and cycles in one run of the agent
MaxChats == 2
MaxAgentBeats == 3

\* the types of the entries one cycle puts on the output channel, in order:
\* nothing (a reply without text), the text of the reply, the error of a
\* failed backend call, and for a backend with tool calls the entries of
\* send_message calls followed by another one or by the error of a call
\* that raised (heartbeat_protocol.py:180-187, 205-217)
CycleOutputs(local) ==
  {<<>>, <<"message">>, <<"error">>}
  \cup (IF local THEN {} ELSE {<<"message", "message">>, <<"message", "error">>})

\* an entry of the output channel: its type and its content, which is the
\* text the cycle `beat` produced after draining the inputs `drained`
OutputEntry(type, beat, drained) ==
  <<type, [beat |-> beat, drained |-> {drained[i] : i \in 1..Len(drained)}]>>

\* the frames of the steps of the agent runs
AgentFrame ==
  UNCHANGED <<core, core_file, archival_index, arcV, mem_result, appended,
              last_call, is_local, missed_beats, stop_event, heartbeat_thread,
              lock_owner, triggered, llm_messages, wpc, ctlV, spc, histVars,
              notAgentV>>

\* nexuss_agent.py:134-135 and 113-114, heartbeat_protocol.py:103-105:
\* chat(m) submits m and enters get_response with an empty `responses`
ChatSend ==
  /\ chat_call.pc = "idle"
  /\ chat_call.n < MaxChats
  /\ LET m == chat_call.n + 1
     IN /\ user_input_queue' = Append(user_input_queue, m)
        /\ chat_call' = [pc |-> "poll", m |-> m, responses |-> <<>>, n |-> m,
                         reply |-> NoReply]
  /\ heartbeat_requested' = TRUE
  /\ UNCHANGED <<recall, state, beat_count, heartbeat_history, output_queue,
                 user_messages, hb_run>>
  /\ AgentFrame

\* nexuss_agent.py:123-129: get_output returns an entry: a message is
\* collected, an error ends the call with the error text alone
ChatPollEntry ==
  /\ chat_call.pc = "poll"
  /\ output_queue # <<>>
  /\ LET output == Head(output_queue)
     IN chat_call' =
          IF output[1] = "message"
            THEN [chat_call EXCEPT !.responses = Append(@, output)]
            ELSE [chat_call EXCEPT
                    !.pc = "idle",
                    !.reply = [kind |-> "error", parts |-> <<output>>,
                               dropped |-> chat_call.responses]]
  /\ output_queue' = Tail(output_queue)
  /\ UNCHANGED <<recall, state, beat_count, heartbeat_history,
                 heartbeat_requested, user_input_queue, user_messages, hb_run>>
  /\ AgentFrame

\* nexuss_agent.py:123, 130-132: get_output(timeout=0.5) returns None after
\* at least one message was collected: the loop ends and the collected
\* messages are returned (with none collected the loop goes on)
ChatPollEmpty ==
  /\ chat_call.pc = "poll"
  /\ output_queue = <<>>
  /\ chat_call.responses # <<>>
  /\ chat_call' = [chat_call EXCEPT
                     !.pc = "idle",
                     !.reply = [kind |-> "text", parts |-> chat_call.responses,
                                dropped |-> <<>>]]
  /\ UNCHANGED <<recall, state, beat_count, heartbeat_history, output_queue,
                 heartbeat_requested, user_input_queue, user_messages, hb_run>>
  /\ AgentFrame

\* nexuss_agent.py:120-122, 132, 136: the deadline of get_response passes:
\* the collected messages are returned, or "[No response]"
ChatDeadline ==
  /\ chat_call.pc = "poll"
  /\ chat_call' = [chat_call EXCEPT
                     !.pc = "idle",
                     !.reply = [kind |-> IF chat_call.responses # <<>>
                                           THEN "text" ELSE "no_response",
                                parts |-> chat_call.responses,
                                dropped |-> <<>>]]
  /\ UNCHANGED <<recall, state, beat_count, heartbeat_history, output_queue,
                 heartbeat_requested, user_input_queue, user_messages, hb_run>>
  /\ AgentFrame

\* heartbeat_protocol.py:117-118, 131-146, 152-178: the wait of the worker
\* returns (the wake flag or the interval), the flag is cleared and a cycle
\* begins: it drains the input queue and records the inputs in recall; a
\* cycle of a local backend without input ends there, any other cycle
\* calls the backend
AgentCycleBegin ==
  /\ hb_run.pc = "wait"
  /\ beat_count < MaxAgentBeats
  /\ beat_count' = beat_count + 1
  /\ heartbeat_requested' = FALSE
  /\ user_messages' = [user_messages EXCEPT ![1] = user_input_queue]
  /\ user_input_queue' = <<>>
  /\ recall' = AppendAll(recall, [i \in 1..Len(user_input_queue) |->
                                    Message("user", user_input_queue[i])])
  /\ IF is_local /\ user_input_queue = <<>>
       THEN /\ state' = "HEARTBEAT"
            /\ UNCHANGED hb_run
       ELSE /\ state' = "THINKING"
            /\ hb_run' = [pc |-> "llm", todo |-> <<>>]
  /\ UNCHANGED <<heartbeat_history, output_queue, chat_call>>
  /\ AgentFrame

\* heartbeat_protocol.py:180-187, 198-217: the backend call returns or
\* raises; the entries the processing of the reply puts are still to come
AgentLLMReturn ==
  /\ hb_run.pc = "llm"
  /\ \E types \in CycleOutputs(is_local) :
       /\ hb_run' = [pc |-> "put",
                     todo |-> [i \in 1..Len(types) |->
                                 OutputEntry(types[i], beat_count, user_messages[1])]]
       /\ recall' = IF types # <<"error">>
                      THEN add_to_recall(recall, Message("assistant", ReplyText))
                      ELSE recall
       /\ state' = IF Len(types) = 2 THEN "EXECUTING" ELSE state
  /\ UNCHANGED <<beat_count, heartbeat_history, output_queue,
                 heartbeat_requested, user_input_queue, user_messages,
                 chat_call>>
  /\ AgentFrame

\* builtin_skills.py:97-99, heartbeat_protocol.py:184, 187, 216-217: one
\* entry is put on the output channel
AgentPut ==
  /\ hb_run.pc = "put"
  /\ hb_run.todo # <<>>
  /\ output_queue' = Append(output_queue, Head(hb_run.todo))
  /\ hb_run' = [hb_run EXCEPT !.todo = Tail(@)]
  /\ UNCHANGED <<recall, state, beat_count, heartbeat_history,
                 heartbeat_requested, user_input_queue, user_messages,
                 chat_call>>
  /\ AgentFrame

\* heartbeat_protocol.py:189-196: the cycle ends
AgentFinish ==
  /\ hb_run.pc = "put"
  /\ hb_run.todo = <<>>
  /\ heartbeat_history' = DequeAppend(heartbeat_history, HeartbeatEvent(1),
                                      HISTORY_MAXLEN)
  /\ state' = "IDLE"
  /\ hb_run' = [hb_run EXCEPT !.pc = "wait"]
  /\ UNCHANGED <<recall, beat_count, output_queue, heartbeat_requested,
                 user_input_queue, user_messages, chat_call>>
  /\ AgentFrame

\* the calls of one client at a time (nexuss_service.py:60-61 holds
\* _chat_lock around chat) and the cycles of the worker
NextAgent ==
  \/ ChatSend \/ ChatPollEntry \/ ChatPollEmpty \/ ChatDeadline
  \/ AgentCycleBegin \/ AgentLLMReturn \/ AgentPut \/ AgentFinish

SpecAgent == Init /\ [][NextAgent]_vars

NextCore == UpdateCore \/ DeleteCore
SpecCore == Init /\ [][NextCore]_vars

NextRecall == AddToRecall
SpecRecall == Init /\ [][NextRecall]_vars

\* ------------------------------------------------------------------- C1
\* the last call was update_core_memory(key, content) on a store where the
\* other blocks plus the new content exceed the limit
WouldExceed ==
  /\ last_call.op = "update"
  /\ SumLen(last_call.core, DOMAIN last_call.core \ {last_call.key})
       + last_call.content.len > CORE_MEMORY_LIMIT

\* C1: after any sequence of update_core_memory and delete_core_memory calls
\* the summed content length of the core blocks is at most CORE_MEMORY_LIMIT,
\* and a write that would exceed the limit returns false and leaves every
\* core block (keys and contents) unchanged.
C1_CoreBudget ==
  /\ CoreChars(core) <= CORE_MEMORY_LIMIT
  /\ WouldExceed => /\ mem_result = "false"
                    /\ core = last_call.core

\* a write was rejected on a non-empty store, and the store is full
C1_Witness ==
  /\ WouldExceed
  /\ DOMAIN core = Keys
  /\ CoreChars(core) = CORE_MEMORY_LIMIT

\* ------------------------------------------------------------------- C2
\* the last n elements of a sequence
LastN(s, n) == SubSeq(s, Len(s) - n + 1, Len(s))

Min(a, b) == IF a <= b THEN a ELSE b

\* C2: the recall buffer never holds more than RECALL_MEMORY_LIMIT entries and
\* always equals the last min(n, capacity) of the n appended entries, in
\* insertion order (an append to a full buffer evicts exactly the oldest).
C2_RecallFifo ==
  /\ Len(recall) <= RECALL_MEMORY_LIMIT
  /\ recall = LastN(appended, Min(Len(appended), RECALL_MEMORY_LIMIT))

\* appends went past the capacity, so entries were evicted
C2_Witness ==
  /\ Len(appended) > RECALL_MEMORY_LIMIT + 1
  /\ Len(recall) = RECALL_MEMORY_LIMIT

\* the scheduler being stopped and restarted by one thread while one input is
\* submitted; the worker steps are taken eventually: the timed wait expires,
\* the backend call returns, and a runnable thread is scheduled
NextStop ==
  \/ StartStep(1) \/ StopStep(1)
  \/ SendOnce \/ SendSet
  \/ \E w \in Workers : WorkerStep(w)

SpecStop ==
  Init /\ [][NextStop]_vars /\ \A w \in Workers : WF_vars(WorkerStep(w))

\* ------------------------------------------------------------------- C3
\* C3: at most one worker is inside a heartbeat cycle at any time, and the
\* worker inside a cycle is the holder of the cycle lock, whatever the
\* interleaving of start() calls, input submissions and wake signals.
C3_OneCycleAtATime ==
  /\ Cardinality({w \in Workers : InCycle(w)}) <= 1
  /\ \A w \in Workers : InCycle(w) => lock_owner = w

\* a second worker was woken by a wake signal while a cycle is running and is
\* waiting to begin its own
C3_Witness ==
  \E w, v \in Workers :
    /\ w # v
    /\ InCycle(w)
    /\ wpc[v] = "exec"
    /\ triggered[v]

\* ------------------------------------------------------------------- C4
Range(s) == {s[i] : i \in DOMAIN s}

\* the inputs 1..n in the order of their submission
Ids(n) == [i \in 1..n |-> i]

\* the contents of the user entries of a message sequence, in order
UserTexts(buf) ==
  LET u == SelectSeq(buf, LAMBDA m : m.role = "user")
  IN [i \in 1..Len(u) |-> u[i].content]

IsSuffix(s, t) == Len(s) <= Len(t) /\ s = SubSeq(t, Len(t) - Len(s) + 1, Len(t))

\* the inputs taken from the queue by a drain loop that has not finished
InFlight ==
  IF lock_owner # 0 /\ wpc[lock_owner] = "drain"
    THEN user_messages[lock_owner] ELSE <<>>

\* C4: every submitted input is drained by exactly one cycle and appended to
\* recall as exactly one user entry, in submission order: the inputs logged
\* by finished drain loops, then those held by a running drain loop, then
\* those still queued are the submitted inputs in order, and the user entries
\* of recall are the most recent logged inputs (all of them until the buffer
\* evicts).
C4_InputsOnceInOrder ==
  /\ user_log \o InFlight \o user_input_queue = Ids(n_put)
  /\ IsSuffix(UserTexts(recall), user_log)
  /\ Len(recall) < RECALL_MEMORY_LIMIT => UserTexts(recall) = user_log

\* two inputs were drained by two different cycles
C4_Witness ==
  /\ user_log = Ids(2)
  /\ beat_count = 2
  /\ heartbeat_history # <<>>
  /\ heartbeat_history[1].pending_tasks = 1

\* ------------------------------------------------------------------- C5
InQueue(i) == i \in Range(user_input_queue)

\* the inputs the running cycle has seen: drained, logged to recall, or named
\* in the messages prepared for the backend
SeenByCycle(w) ==
  Range(user_messages[w]) \cup Range(llm_messages[w].final)
    \cup Range(UserTexts(llm_messages[w].context))

\* C5 as stated: an input submitted after a cycle has begun is not drained by
\* that cycle.
C5_MidCycleInputWaits ==
  lock_owner # 0 =>
    \A i \in mid_early \cup mid_late :
      InQueue(i) /\ i \notin SeenByCycle(lock_owner)

\* C5 amended: an input submitted after the drain loop of the running cycle
\* has finished stays queued and is not seen by that cycle (not drained, not
\* in recall, not in the backend messages); it is drained by the next cycle
\* that runs.
C5_LateInputWaits ==
  /\ lock_owner # 0 =>
       \A i \in mid_late :
         /\ InQueue(i)
         /\ i \notin SeenByCycle(lock_owner)
         /\ i \notin Range(user_log)
         /\ i \notin Range(UserTexts(recall))
  /\ PastDrain => \A i \in carried : i \in Range(user_log)

\* an input submitted late in one cycle has been drained by the next cycle
C5_Witness ==
  /\ PastDrain
  /\ carried # {}
  /\ carried \subseteq Range(user_messages[lock_owner])

\* ------------------------------------------------------------------- C7
\* C7 as stated, second part: a cycle triggered by a wake signal, where the
\* wake flag was only ever raised by input submissions, does not start with
\* an empty input queue.
C7_WakeFindsInput ==
  \A w \in Workers :
    ~ /\ wpc[w] = "drain"
      /\ triggered[w]
      /\ ~other_wake
      /\ user_messages[w] = <<>>
      /\ user_input_queue = <<>>

\* C7 amended: a wake does not double-trigger. Every wake-up by the flag
\* consumes a signal raised after the previous wake-up (the flag is cleared
\* when the worker wakes), and a cycle drains every input queued before its
\* drain loop ended: what is queued after the drain loop was submitted during
\* this cycle.
C7_NoDoubleTrigger ==
  /\ \A w \in Workers : (wpc[w] = "wait" /\ heartbeat_requested) => sets_pending
  /\ PastDrain => Range(user_input_queue) \subseteq mid_early \cup mid_late

\* one wake-triggered cycle has drained two inputs
C7_Witness ==
  /\ PastDrain
  /\ triggered[lock_owner]
  /\ Len(user_messages[lock_owner]) = 2

\* ------------------------------------------------------------------- C8
\* C8: while stop() is past setting the stop flag and has not returned from
\* its join, the wake flag has been signalled for a worker blocked in the
\* timed wait.
C8_StopSignalsWake ==
  \A c \in Callers :
    cpc[c] \in {"stop_read", "stop_join"} =>
      \A w \in Workers : wpc[w] = "wait" => heartbeat_requested

\* ------------------------------------------------------------------- C9
\* C9: after stop() has set the stop flag a worker begins at most one further
\* cycle, a worker ends only at its own test of the stop flag (it is never
\* killed), and a live worker eventually leaves its loop (given that the
\* timed wait and the backend call return; beat_count = MaxBeats is the end
\* of the modelled run).
C9_StopEndsWorker ==
  /\ [](\A w \in Workers : stop_cycles[w] <= 1)
  /\ [][\A w \in Workers :
          (wpc[w] # "dead" /\ wpc'[w] = "dead") =>
             (wpc[w] \in {"loop", "clear"} /\ stop_event)]_vars
  /\ \A w \in Workers :
       (stop_event /\ IsAlive(w)) ~>
          (~IsAlive(w) \/ ~stop_event \/ beat_count = MaxBeats)

\* a worker began one cycle after the stop flag was set and has exited
C9_Witness ==
  \E w \in Workers :
    /\ stop_event
    /\ stop_cycles[w] = 1
    /\ wpc[w] = "dead"

\* ------------------------------------------------------------------ C10
\* C10: once stop() has set the state to SHUTDOWN the state stays SHUTDOWN
\* as long as start() has not been called again, also when the join timed out
\* and the worker is still finishing a cycle.
C10_ShutdownTerminal ==
  [][(state = "SHUTDOWN" /\ ~start_called) => state' = "SHUTDOWN"]_vars

\* ------------------------------------------------------------------- C6
\* an input whose send_user_input call has returned
Returned(i) == i <= n_put - (IF spc = "send_set" THEN 1 ELSE 0)

\* the worker is past its wait and before the end of its drain loop
AboutToDrain(w) == wpc[w] \in {"clear", "exec", "drain"}

\* C6: no wake-up is lost. While the scheduler runs (a worker is alive and
\* the stop flag is clear), whenever an input whose send_user_input call has
\* returned is still queued, the wake flag is set or a worker is past its
\* wait and about to drain.
C6_NoLostWake ==
  (/\ ~stop_event
   /\ \E w \in Workers : IsAlive(w)
   /\ \E i \in Range(user_input_queue) : Returned(i))
    => (heartbeat_requested \/ \E w \in Workers : AboutToDrain(w))


\* ------------------------------------------------------------------ C12
\* C12: an exception raised inside a cycle does not end the worker loop: a
\* worker ends only at its own test of the stop flag, and after a cycle that
\* failed, and after the state has become ERROR, a live worker that is not
\* stopped begins a further cycle (given that the timed wait and the backend
\* call return; beat_count = MaxFailBeats is the end of the modelled run).
C12_LoopSurvivesErrors ==
  /\ [][\A w \in Workers :
          (wpc[w] # "dead" /\ wpc'[w] = "dead") =>
             (wpc[w] \in {"loop", "clear"} /\ stop_event)]_vars
  /\ \A w \in Workers :
       (wpc[w] = "except" \/ (state = "ERROR" /\ wpc[w] = "loop")) ~>
          (wpc[w] = "drain" \/ stop_event \/ beat_count = MaxFailBeats)

\* the state is ERROR and the worker is in a further cycle
C12_Witness ==
  \E w \in Workers :
    /\ missed_beats >= HEARTBEAT_MAX_MISSED
    /\ wpc[w] = "drain"
    /\ ~stop_event


\* ------------------------------------------------------------------ C11
\* the backend call, or the processing of its reply, has raised
ReplyFailed(resp) ==
  \/ resp.kind = "raise"
  \/ /\ resp.kind = "message"
     /\ ExecuteTools(resp.tool_calls, ToolState0(FALSE, <<>>)).raised

\* the entries of a sequence of output entries that have the given kind
OfKind(entries, kind) == SelectSeq(entries, LAMBDA e : e[1] = kind)

\* C11: when the backend call or the processing of its reply (tool execution
\* included) raises, the cycle puts exactly one ("error", message) entry on
\* the output channel and no ("message", ...) entry of the scheduler's own
\* (the only "message" entries are those the send_message calls made before
\* the failure have put); the cycle then completes normally: the event of the
\* cycle is recorded, the state is IDLE, the missed-beat counter is 0 and the
\* worker is back at the test of its loop.
C11_ErrorReported ==
  /\ [](\A w \in Workers :
          (wpc[w] = "finish" /\ ReplyFailed(cyc.resp)) =>
             /\ Len(OfKind(cyc.out, "error")) = 1
             /\ \A i \in 1..Len(cyc.out) :
                  cyc.out[i][1] = "message" => cyc.out[i][2] = SentText
             /\ Len(OfKind(cyc.out, "message")) =
                  Len(SelectSeq(cyc.invoked, LAMBDA n : n = "send_message")))
  /\ [][\A w \in Workers :
          (wpc[w] = "finish" /\ ReplyFailed(cyc.resp) /\ wpc'[w] # "finish") =>
             /\ wpc'[w] = "loop"
             /\ state' = "IDLE"
             /\ missed_beats' = 0
             /\ heartbeat_history' =
                  Append(heartbeat_history,
                         [beat_id |-> beat_count,
                          pending_tasks |-> Len(user_messages[w])])
             /\ output_queue' = output_queue]_vars

\* a cycle whose tool execution raised after a send_message call has completed
C11_Witness ==
  \E w \in Workers :
    /\ wpc[w] = "loop"
    /\ state = "IDLE"
    /\ beat_count = 1
    /\ Len(heartbeat_history) = 1
    /\ out_taken \o output_queue = <<<<"message", SentText>>, <<"error", 0>>>>


\* ------------------------------------------------------------------ C13
\* C13: the state becomes ERROR exactly when the number of consecutive cycles
\* that ended with an escaping exception reaches HEARTBEAT_MAX_MISSED: a step
\* that makes the state ERROR is the end of a failed cycle that brings the
\* count of consecutive failures to the threshold or beyond, every such step
\* makes the state ERROR, and the counter the scheduler keeps is that count (a
\* cycle that ends without an escaping exception, the no-op cycle included,
\* restarts it at zero).
C13_ErrorAtConsecutiveMisses ==
  /\ [](missed_beats = consec_fail)
  /\ [][/\ (state # "ERROR" /\ state' = "ERROR") =>
             (consec_fail' = consec_fail + 1 /\ consec_fail' >= HEARTBEAT_MAX_MISSED)
        /\ (consec_fail' = consec_fail + 1 /\ consec_fail' >= HEARTBEAT_MAX_MISSED) =>
             state' = "ERROR"]_vars


\* ------------------------------------------------------------------ C14
\* C14: SkillRegistry.execute never propagates a failure to its caller, so a
\* tool call made from _process_response never makes the processing of the
\* reply fail: in a cycle whose reply carries tool calls (none of them with an
\* output json.dumps cannot serialise) every call is dispatched, in order, and
\* the cycle puts no ("error", ...) entry on the output channel.
C14_ExecuteNeverPropagates ==
  \A w \in Workers :
    (/\ wpc[w] = "finish"
     /\ cyc.resp.kind = "message"
     /\ \A i \in 1..Len(cyc.resp.tool_calls) :
          cyc.resp.tool_calls[i].name # "opaque_skill") =>
       /\ cyc.invoked = Names(cyc.resp.tool_calls)
       /\ OfKind(cyc.out, "error") = <<>>


\* ------------------------------------------------------------------ C15
\* the reply of the running cycle is a text without tool calls
PlainReply(resp) ==
  resp.kind = "message" /\ resp.content # 0 /\ resp.tool_calls = <<>>

\* C15: a cycle whose reply has text content and no tool calls puts exactly
\* one ("message", text) entry on the output channel and nothing else; when
\* that cycle is the first one, all the channel has yielded and still holds
\* is that one entry; the text of a reply that carries tool calls is not
\* published by the scheduler.
C15_ReplyPublishedOnce ==
  \A w \in Workers :
    wpc[w] = "finish" =>
      /\ PlainReply(cyc.resp) =>
           /\ cyc.out = <<<<"message", cyc.resp.content>>>>
           /\ beat_count = 1 =>
                out_taken \o output_queue = <<<<"message", cyc.resp.content>>>>
      /\ (cyc.resp.kind = "message" /\ cyc.resp.tool_calls # <<>>) =>
           \A i \in 1..Len(cyc.out) : cyc.out[i] # <<"message", ReplyText>>

\* one input was submitted, the first cycle drained it, the backend replied
\* with a text and get_output() has returned the entry
C15_Witness ==
  \E w \in Workers :
    /\ wpc[w] = "finish"
    /\ beat_count = 1
    /\ Len(user_messages[w]) = 1
    /\ PlainReply(cyc.resp)
    /\ out_taken = <<<<"message", ReplyText>>>>
    /\ output_queue = <<>>


\* ------------------------------------------------------------------ C16
\* the tool-role entries of the calls of a tool-call list, in their order
ToolEntries(calls) ==
  [i \in 1..Len(calls) |->
     Message("tool", ToolResultText(calls[i].name,
                                    SkillExecute(calls[i].name).success))]

\* C16: for each tool call of a reply, in the order requested, the scheduler
\* invokes the dispatcher once and appends one tool-role entry with the name
\* and the result (or error) of the call to recall: when the processing of a
\* reply with tool calls has completed, the entries the cycle has appended to
\* recall end with the assistant entry followed by these tool entries.
C16_ToolResultsInRecall ==
  \A w \in Workers :
    (/\ wpc[w] = "finish"
     /\ cyc.resp.kind = "message"
     /\ cyc.resp.tool_calls # <<>>
     /\ ~ReplyFailed(cyc.resp)) =>
       /\ cyc.invoked = Names(cyc.resp.tool_calls)
       /\ IsSuffix(<<Message("assistant", cyc.resp.content)>>
                     \o ToolEntries(cyc.resp.tool_calls), cyc.rec)


\* ------------------------------------------------------------------ C17
\* C17: every cycle that returns without an escaping exception, the no-op
\* cycle of a tool-incapable backend with no queued input included, leaves
\* the state IDLE and the missed-beat counter 0; hence, while no cycle fails,
\* the state is not HEARTBEAT, THINKING or EXECUTING whenever the worker is
\* blocked waiting for the next wake.
C17_CycleEndsIdle ==
  /\ [][\A w \in Workers :
          (InCycle(w) /\ wpc'[w] = "loop") =>
             (state' = "IDLE" /\ missed_beats' = 0)]_vars
  /\ [](\A w \in Workers :
          wpc[w] = "wait" => state \notin {"HEARTBEAT", "THINKING", "EXECUTING"})


\* ------------------------------------------------------------------ C18
\* C18: every cycle that returns without an escaping exception appends exactly
\* one HeartbeatEvent whose beat_id is the beat count of that cycle, so the
\* beat_ids of the history are strictly increasing and the history holds the
\* most recent events up to its capacity.
C18_OneEventPerCycle ==
  /\ [][\A w \in Workers :
          (InCycle(w) /\ wpc'[w] = "loop") =>
             /\ heartbeat_history' # <<>>
             /\ heartbeat_history'[Len(heartbeat_history')].beat_id = beat_count
             /\ heartbeat_history' =
                  DequeAppend(heartbeat_history,
                              heartbeat_history'[Len(heartbeat_history')],
                              HISTORY_MAXLEN)]_vars
  /\ [](/\ Len(heartbeat_history) <= HISTORY_MAXLEN
        /\ \A i, j \in 1..Len(heartbeat_history) :
             i < j => heartbeat_history[i].beat_id < heartbeat_history[j].beat_id)


\* ------------------------------------------------------------------ C19
\* C19: in a cycle with no queued input a tool-incapable (local) backend is
\* not called at all and the cycle puts nothing on the output channel and
\* appends nothing to recall, while a tool-capable backend is called exactly
\* once with the reflect prompt as final message; in a cycle with queued input
\* the backend is called exactly once (with the prompt that names the input).
C19_IdleSkipsLocalBackend ==
  /\ [](\A w \in Workers :
          /\ wpc[w] \in {"drain", "context"} => cyc.calls = 0
          /\ wpc[w] \in {"llm", "finish"} =>
               /\ cyc.calls = 1
               /\ ~(is_local /\ user_messages[w] = <<>>)
               /\ user_messages[w] = <<>> =>
                    (llm_messages[w].kind = "tick" /\ llm_messages[w].final = <<>>)
               /\ user_messages[w] # <<>> =>
                    (llm_messages[w].kind = "process" /\ llm_messages[w].final # <<>>))
  /\ [][\A w \in Workers :
          (InCycle(w) /\ wpc'[w] = "loop") =>
             IF is_local /\ user_messages[w] = <<>>
               THEN /\ cyc.calls = 0 /\ cyc.out = <<>> /\ cyc.rec = <<>>
                    /\ output_queue' = output_queue
                    /\ recall' = recall
               ELSE cyc.calls = 1]_vars

\* a no-op cycle of a local backend has ended
C19_Witness ==
  \E w \in Workers :
    /\ is_local
    /\ wpc[w] = "loop"
    /\ beat_count = 1
    /\ user_log = <<>>
    /\ heartbeat_history = <<>>
    /\ output_queue = <<>> /\ out_taken = <<>>
    /\ recall = <<>>


\* ------------------------------------------------------------------ C20
\* C20: build_context is deterministic and idempotent: a call with the same
\* system prompt and focus query as the call before it, with no store
\* operation by another caller in between, returns the same message sequence
\* and the same token snapshot.
C20_BuildContextIdempotent ==
  [][(ctx_last.made /\ ctx_last'.made /\ ctx_calls' = ctx_calls + 1
      /\ ctx_last'.prompt = ctx_last.prompt /\ ctx_last'.focus = ctx_last.focus) =>
        /\ ctx_last'.messages = ctx_last.messages
        /\ ctx_last'.context = ctx_last.context]_vars

\* a second call with the same arguments has returned a context with archival
\* matches in the system message and with only a part of the recall buffer
C20_Witness ==
  /\ ctx_last.made
  /\ ctx_last.repeat
  /\ ctx_last.messages[1].content.archival # <<>>
  /\ Len(ctx_last.messages) > 1
  /\ Len(ctx_last.messages) - 1 < Len(recall)


\* ------------------------------------------------------------------ C21
\* C21: build_context never mutates the store: after the call every core
\* block, recall entry and archival block has the same fields (content,
\* importance, access_count, tags) as before the call.
C21_BuildContextReadOnly ==
  [][ctx_calls' = ctx_calls + 1 =>
        /\ core' = core
        /\ recall' = recall
        /\ archival_index' = archival_index]_vars


\* ------------------------------------------------------------------ C22
\* the matches a call with this focus gets from the archival tier
Matches(index, focus) ==
  IF focus = 0 THEN <<>>
  ELSE search_archival(index, focus, CONTEXT_SEARCH_LIMIT, {}).results

\* the estimated cost of the formatted excerpt of the matches
ExcerptCost(results) ==
  estimate_tokens(ArchivalContentLen(
    [i \in 1..Len(results) |-> ArchivalLine(results[i])]))

\* the budget that remains after the system prompt, the core memory and the
\* safety margin
RemainingAfterCore(prompt, blocks) ==
  ATTENTION_WINDOW_TOKENS - estimate_tokens(prompt.len)
    - estimate_tokens(CoreContentLen(blocks)) - RESERVED_TOKENS

\* what the claim says of one call: the excerpt is in the system message
\* exactly when the test holds for its cost and the remaining budget, its cost
\* is then deducted (it is part of the tokens used and the recall entries fit
\* what is left), and otherwise the system message has no part of it
ExcerptRule(Fits(_, _)) ==
  ctx_calls' = ctx_calls + 1 =>
    LET results == Matches(archival_index, ctx_last'.focus)
        cost == ExcerptCost(results)
        remaining == RemainingAfterCore(ctx_last'.prompt, core)
        excerpt == ctx_last'.messages[1].content.archival
        snap == ctx_last'.context
    IN results # <<>> =>
         IF Fits(cost, remaining)
           THEN /\ Len(excerpt) = Len(results)
                /\ snap.total_tokens =
                     snap.system_tokens + snap.core_tokens + cost
                       + snap.recall_tokens
                /\ snap.recall_tokens <= remaining - cost
           ELSE /\ excerpt = <<>>
                /\ snap.total_tokens =
                     snap.system_tokens + snap.core_tokens + snap.recall_tokens

\* C22 as stated: when the focus query has at least one archival match, the
\* formatted excerpt is appended to the system message exactly when three
\* times its estimated cost is less than the remaining budget, and then the
\* remaining budget is reduced by that cost; otherwise the system message
\* contains no part of the excerpt.
C22_ArchivalThreeTimes ==
  [][ExcerptRule(LAMBDA cost, remaining : 3 * cost < remaining)]_vars

\* C22 (amended): when the focus query has at least one archival match, the
\* formatted excerpt is appended to the system message exactly when its
\* estimated cost is less than the whole number of tokens in one third of the
\* remaining budget (cost < floor(remaining / 3)), and then the remaining
\* budget is reduced by that cost; otherwise the system message contains no
\* part of the excerpt.
C22_ArchivalOneThird ==
  [][ExcerptRule(LAMBDA cost, remaining : cost < remaining \div 3)]_vars

\* a call whose excerpt costs exactly the whole third of the remaining budget
\* (three times the cost is below the budget) has left the excerpt out
C22_Witness ==
  /\ ctx_last.made
  /\ LET results == Matches(archival_index, ctx_last.focus)
         cost == ExcerptCost(results)
         remaining == RemainingAfterCore(ctx_last.prompt, core)
     IN /\ results # <<>>
        /\ 3 * cost < remaining
        /\ cost = remaining \div 3
        /\ ctx_last.messages[1].content.archival = <<>>


\* ------------------------------------------------------------------ C23
RECURSIVE SuffixCost(_, _)
\* the summed estimated cost of the k most recent entries of a buffer
SuffixCost(buf, k) ==
  IF k = 0 THEN 0
  ELSE estimate_tokens(TextLen(buf[Len(buf) - k + 1].content))
         + SuffixCost(buf, k - 1)

\* the budget left for recall by a call: what remains after the system
\* prompt, the core memory and the margin, less the cost of an excerpt that
\* is in the system message
RecallBudget(prompt, blocks, index, focus, excerpt) ==
  RemainingAfterCore(prompt, blocks)
    - (IF excerpt # <<>> THEN ExcerptCost(Matches(index, focus)) ELSE 0)

\* the entries after the system message are the k most recent entries of the
\* buffer, unchanged and in chronological order, where k is the largest
\* number of most recent entries whose summed cost is within the budget
LongestSuffix(added, buf, budget) ==
  LET k == Len(added)
      n == Len(buf)
  IN /\ k <= n
     /\ added = SubSeq(buf, n - k + 1, n)
     /\ k > 0 => SuffixCost(buf, k) <= budget
     /\ k < n => SuffixCost(buf, k + 1) > budget

\* C23: the recall entries placed in the context are exactly the longest
\* suffix of the recall buffer whose summed estimated cost does not exceed the
\* remaining budget, in chronological order right after the system message;
\* no older entry is included when a newer one was left out and no entry is
\* truncated.
C23_RecallLongestSuffix ==
  [][ctx_calls' = ctx_calls + 1 =>
       /\ ctx_last'.messages[1].role = "system"
       /\ LongestSuffix(Tail(ctx_last'.messages), recall,
                        RecallBudget(ctx_last'.prompt, core, archival_index,
                                     ctx_last'.focus,
                                     ctx_last'.messages[1].content.archival))
       /\ ctx_last'.context.recall_tokens =
            SuffixCost(recall, Len(ctx_last'.messages) - 1)]_vars

\* a call has placed the newest entry of a three-entry buffer in the context
\* and left the two older ones out
C23_Witness ==
  /\ ctx_last.made
  /\ Len(recall) = 3
  /\ Len(ctx_last.messages) = 2
  /\ ctx_last.messages[2] = recall[3]
  /\ ctx_last.context.recall_tokens > 0


\* ------------------------------------------------------------------ C24
\* the estimated cost of an excerpt that is in the system message
IncludedCost(index, focus, excerpt) ==
  IF excerpt # <<>> THEN ExcerptCost(Matches(index, focus)) ELSE 0

\* C24: in every build_context call in which the tokens of the system prompt
\* and of the core memory are at most the budget less 500, the tokens used in
\* total (system, core, archival and recall) are at most the budget less 500,
\* and a recall entry that costs more than what remains after system, core
\* and the margin of 500 is not in the context.
C24_TotalWithinBudget ==
  [][ctx_calls' = ctx_calls + 1 =>
       LET snap == ctx_last'.context
           added == Tail(ctx_last'.messages)
           left == ATTENTION_WINDOW_TOKENS - snap.system_tokens
                     - snap.core_tokens - 500
       IN /\ snap.system_tokens = estimate_tokens(ctx_last'.prompt.len)
          /\ snap.core_tokens = estimate_tokens(CoreContentLen(core))
          /\ snap.total_tokens =
               snap.system_tokens + snap.core_tokens + snap.recall_tokens
                 + IncludedCost(archival_index, ctx_last'.focus,
                                ctx_last'.messages[1].content.archival)
          /\ snap.available_tokens = ATTENTION_WINDOW_TOKENS - snap.total_tokens
          /\ left >= 0 => snap.total_tokens <= ATTENTION_WINDOW_TOKENS - 500
          /\ \A i \in 1..Len(recall) :
               estimate_tokens(TextLen(recall[i].content)) > left =>
                 Len(added) <= Len(recall) - i]_vars

\* a call with a window-filling prompt has left out a recall entry that costs
\* more than what remained, and has used tokens beyond system and core
C24_Witness ==
  /\ ctx_last.made
  /\ recall # <<>>
  /\ ctx_last.context.system_tokens + ctx_last.context.core_tokens
       <= ATTENTION_WINDOW_TOKENS - 500
  /\ estimate_tokens(TextLen(recall[Len(recall)].content)) >
       ATTENTION_WINDOW_TOKENS - ctx_last.context.system_tokens
         - ctx_last.context.core_tokens - 500
  /\ Len(ctx_last.messages) = 1
  /\ ctx_last.context.total_tokens >
       ctx_last.context.system_tokens + ctx_last.context.core_tokens

\* ------------------------------------------------------------ C25
\* the number of query words found in the content of the block
MatchCount(block, query) == Cardinality(QueryWords(query) \cap block.words)

\* C25: search_archival(query, limit, tags) returns at most limit blocks of
\* the index; each has at least one query word in its content and, when a tag
\* filter is given, shares a tag with it; the result is ordered by the number
\* of matching words, descending, then by importance, descending.
C25_SearchResults ==
  search_last.made =>
    LET r == search_last.results
        q == search_last.query
    IN /\ Len(r) <= search_last.limit
       /\ \A i \in 1..Len(r) :
            /\ \E j \in 1..Len(search_last.after) : search_last.after[j] = r[i]
            /\ MatchCount(r[i], q) >= 1
            /\ search_last.tags # {} => search_last.tags \cap r[i].tags # {}
       /\ \A i, j \in 1..Len(r) :
            i < j => \/ MatchCount(r[i], q) > MatchCount(r[j], q)
                     \/ /\ MatchCount(r[i], q) = MatchCount(r[j], q)
                        /\ r[i].importance >= r[j].importance

\* a search with a tag filter that returns two blocks, the one with two
\* matching words first, and leaves out a block with a matching word and no
\* tag of the filter
C25_Witness ==
  /\ search_last.made
  /\ search_last.tags # {}
  /\ Len(search_last.results) = 2
  /\ MatchCount(search_last.results[1], search_last.query) = 2
  /\ MatchCount(search_last.results[2], search_last.query) = 1
  /\ \E j \in 1..Len(search_last.before) :
       /\ MatchCount(search_last.before[j], search_last.query) >= 1
       /\ search_last.tags \cap search_last.before[j].tags = {}

\* ------------------------------------------------------------ C26
\* the block is among the blocks the latest search returned
ReturnedBySearch(block) ==
  \E i \in 1..Len(search_last.results) : search_last.results[i].id = block.id

\* C26: search_archival increments by one the access counter of each block
\* it returns and leaves the access counter of every block it does not
\* return unchanged, including matching blocks cut off by the limit.
C26_OnlyReturnedCounted ==
  search_last.made =>
    \A j \in 1..Len(search_last.before) :
      search_last.after[j].access_count =
        search_last.before[j].access_count +
          (IF ReturnedBySearch(search_last.before[j]) THEN 1 ELSE 0)

\* ------------------------------------------------------------ C27
\* the last k entries of the buffer, oldest first
MostRecent(buf, k) == SubSeq(buf, Len(buf) - k + 1, Len(buf))

\* C27: get_recall_messages(limit) with a limit given returns exactly the
\* most recent min(limit, n) entries of the n-entry recall buffer, oldest
\* first, for every limit >= 0; with no limit given it returns all n entries
\* in chronological order.
C27_RecallMostRecent ==
  last_call.op = "read" =>
    LET n == Len(last_call.buf)
        limit == last_call.limit
    IN IF ~limit.given THEN last_call.result = last_call.buf
       ELSE limit.n >= 0 =>
              last_call.result =
                MostRecent(last_call.buf, IF limit.n < n THEN limit.n ELSE n)

\* ------------------------------------------------------------ C28
\* C28: update_core_memory(key, content) succeeds exactly when the combined
\* length of the core blocks other than key plus len(content) is at most
\* CORE_MEMORY_LIMIT (the old content of key is not counted); on success the
\* block for key holds the new content, all other blocks are unchanged, and
\* the persisted core record equals the in-memory core when the call returns.
C28_UpdateSucceedsIffFits ==
  last_call.op = "update" =>
    LET key == last_call.key
        before == last_call.core
        fits == SumLen(before, DOMAIN before \ {key}) + last_call.content.len
                  <= CORE_MEMORY_LIMIT
    IN /\ (mem_result = "true") <=> fits
       /\ mem_result = "true" =>
            /\ DOMAIN core = DOMAIN before \cup {key}
            /\ core[key].content = last_call.content
            /\ \A k \in DOMAIN before \ {key} : core[k] = before[k]
            /\ core_file = [valid |-> TRUE, data |-> core]

\* ------------------------------------------------------------ C29
\* C29: every add_to_archival call creates a new block: the identifier it
\* returns differs from the identifier of every block already in the
\* archival tier, also when the same content is archived again within the
\* same clock second, so the block count grows by exactly one per call and
\* no earlier block is overwritten.
C29_EveryArchiveIsNew ==
  [][arch_calls' = arch_calls + 1 =>
       /\ \A j \in 1..Len(archival_index) :
            archival_index[j].id # last_call'.id
       /\ Len(archival_index') = Len(archival_index) + 1
       /\ \A j \in 1..Len(archival_index) :
            archival_index'[j] = archival_index[j]]_vars

\* ------------------------------------------------------------ C30
\* C30: when persisting fails during update_core_memory, delete_core_memory
\* or add_to_archival, the failure is swallowed: the operation returns its
\* normal result (true, false for a call that changes nothing, or the new
\* block id) and no exception reaches the caller.
C30_PersistFailureSwallowed ==
  last_call.op \in {"update", "delete", "archive"} =>
    mem_result \in {"true", "false", "id"}

\* ------------------------------------------------------------ C31
\* the keys of the core with their contents
CoreView(blocks) == [k \in DOMAIN blocks |-> blocks[k].content]

\* the identifiers of the archival blocks with their contents
ArchivalView(index) ==
  {<<index[i].id, index[i].content>> : i \in 1..Len(index)}

\* C31: after any sequence of successful update_core_memory,
\* delete_core_memory, add_to_archival and delete_archival calls, a store
\* re-created from the persisted records has the same core keys and contents
\* and the same archival ids and contents as the store before the restart,
\* and an empty recall buffer; a deleted block does not reappear.
C31_RestartRestoresStore ==
  [][(restarts' = restarts + 1 /\ ~save_failed) =>
       /\ CoreView(core') = CoreView(core)
       /\ ArchivalView(archival_index') = ArchivalView(archival_index)
       /\ Len(archival_index') = Len(archival_index)
       /\ recall' = <<>>]_vars

\* a store re-created after successful calls, one of them a delete, with a
\* core block and an archival block
C31_Witness ==
  /\ restarts = 1
  /\ mem_result = "none"
  /\ ~save_failed
  /\ dels >= 1
  /\ core # <<>>
  /\ archival_index # <<>>

\* ------------------------------------------------------------ C32
\* C32: at startup a corrupt persisted record is skipped without aborting
\* the load: for any subset of corrupt archival records exactly the
\* non-corrupt archival records are loaded, and a corrupt core record does
\* not prevent the archival records from loading.
C32_CorruptRecordsSkipped ==
  [][restarts' = restarts + 1 =>
       LET intact == {id \in DOMAIN archival_files : archival_files[id].valid}
       IN /\ {archival_index'[i].id : i \in 1..Len(archival_index')} = intact
          /\ Len(archival_index') = Cardinality(intact)
          /\ \A i \in 1..Len(archival_index') :
               archival_index'[i] = archival_files[archival_index'[i].id].data
          /\ core_file.valid => core' = core_file.data]_vars

\* a store loaded from a corrupt core record, a corrupt archival record and
\* two intact archival records
C32_Witness ==
  /\ restarts = 1
  /\ ~core_file.valid
  /\ \E id \in DOMAIN archival_files : ~archival_files[id].valid
  /\ Len(archival_index) = 2

\* ------------------------------------------------------------ C33
\* C33: under any interleaving of concurrent update_core_memory calls, also
\* on different keys, the length check and the upsert of a call are one
\* atomic step: the outcome equals that of the calls made one after the
\* other in some order (the order in which they entered the lock), no
\* accepted write is lost, and the core budget holds in every reachable state.
C33_UpdatesSerialized ==
  /\ CoreChars(core) <= CORE_MEMORY_LIMIT
  /\ \A t \in StoreThreads :
       upc[t].pc \in {"exit", "done"} =>
         (upc[t].result \in {"true", "raise"}) = shadow.accepted[t]
  /\ (\A t \in StoreThreads : upc[t].pc \in {"idle", "enter", "done"}) =>
       CoreView(core) = CoreView(shadow.core)

\* two calls on different keys overlap: one has passed its check and is
\* about to write, the other one waits for the lock with a content that
\* fits the core as it is now and not the core after that write
C33_Witness ==
  /\ upc[1].pc = "upsert"
  /\ upc[2].pc = "enter"
  /\ mem_lock = 1
  /\ upc[1].key # upc[2].key
  /\ CoreFits(core, upc[2].key, upc[2].content)
  /\ ~CoreFits(CoreUpsert(core, upc[1].key, upc[1].content), upc[2].key,
               upc[2].content)

\* ------------------------------------------------------------ C34
\* the thread is inside the with block of a store call
InStoreCall(t) ==
  \/ upc[t].pc \in {"check", "upsert", "save", "exit"}
  \/ t = WorkerThread /\ \E c \in StoreCalls : lcyc.pc = <<"in", c>>

\* the thread waits for the store lock
WaitsForStore(t) ==
  \/ upc[t].pc = "enter"
  \/ t = WorkerThread /\ \E c \in StoreCalls : lcyc.pc = <<"enter", c>>

\* C34: the store lock is held only for the duration of a single store call:
\* it is never held while the backend call is in flight, so a store
\* operation issued by another thread during a backend call goes ahead
\* without waiting for the backend, and a skill handler that calls the store
\* from inside a cycle never deadlocks (whoever holds the lock is inside a
\* store call, whose steps need nothing else).
C34_StoreLockScopedPerCall ==
  /\ lcyc.pc = <<"backend">> => mem_lock # WorkerThread
  /\ \A t \in StoreThreads : mem_lock = t => InStoreCall(t)
  /\ (lcyc.pc = <<"backend">> /\ WaitsForStore(OtherThread)) =>
       ENABLED UAcquire(OtherThread)
  /\ (lcyc.pc = <<"handler">> /\ WaitsForStore(WorkerThread)) =>
       \/ ENABLED UAcquire(WorkerThread)
       \/ InStoreCall(OtherThread)

\* the backend call is in flight while the other thread is inside
\* update_core_memory with the store lock
C34_Witness ==
  /\ lcyc.pc = <<"backend">>
  /\ mem_lock = OtherThread
  /\ upc[OtherThread].pc = "upsert"

\* ------------------------------------------------------------ C35
\* the piece occurs in the text
Occurs(piece, text) == \E k \in 1..Len(text) : text[k] = piece

\* C35: for every input message sequence over the roles user, assistant,
\* system and tool, the sequence LocalModel.chat builds contains no
\* system-role or tool-role message, begins with a user turn and has no two
\* adjacent messages with the same role; the content of every input message,
\* system content included, appears in some output message.
C35_ChatTurnsNormalized ==
  chat_out # NoChat =>
    /\ \A j \in 1..Len(chat_out) : chat_out[j].role \in {"user", "assistant"}
    /\ chat_out[1].role = "user"
    /\ \A j \in 1..(Len(chat_out) - 1) : chat_out[j].role # chat_out[j + 1].role
    /\ \A i \in 1..Len(chat_in) :
         \E j \in 1..Len(chat_out) : Occurs(i, chat_out[j].content)

\* an input that begins with an assistant turn, with system content that is
\* folded into the tool result after it, which is merged with the user
\* message that follows
C35_Witness ==
  /\ chat_out # NoChat
  /\ Len(chat_in) = 4
  /\ chat_in[1].role = "assistant"
  /\ chat_in[2].role = "system"
  /\ chat_in[3].role = "tool"
  /\ chat_in[4].role = "user"
  /\ Len(chat_out) = 3

\* ------------------------------------------------------------ C36
\* C36: while a cycle is between its first step and its final return to
\* IDLE, the state reported by get_status is one of HEARTBEAT, THINKING or
\* EXECUTING, under any interleaving with start() and stop() called from
\* other threads.
C36_CycleStateNotOverwritten ==
  \A w \in Workers :
    InCycle(w) => state \in {"HEARTBEAT", "THINKING", "EXECUTING"}

\* ------------------------------------------------------------ C37
\* the last call of the controlling thread was start(), and it has returned
StartReturned == start_called /\ cpc[1] = "idle"

\* C37: after any start() call returns, and as long as stop() is not called
\* afterwards, a worker is running: every input submitted later is
\* eventually drained by a cycle (within the cycles of a run). This holds
\* also when start() follows a stop() whose join timed out while the old
\* worker was still inside a cycle, and at no time is more than one worker
\* thread alive.
C37_StartedWorkerDrains ==
  /\ [](Cardinality({w \in Workers : IsAlive(w)}) <= 1)
  /\ [](StartReturned => \E w \in Workers : IsAlive(w))
  /\ (StartReturned /\ user_input_queue # <<>>) ~>
       (user_input_queue = <<>> \/ ~StartReturned \/ beat_count = MaxBeats)

\* ------------------------------------------------------------ C38
\* C38: every SkillResult with success=false returned by
\* SkillRegistry.execute carries a non-null error text, so the tool message
\* the scheduler builds for a failed call never has a null result; this
\* includes core_memory_update rejected by the core size limit.
C38_FailedResultHasError ==
  (skill_calls > 0 /\ ~skill_result.success) =>
    /\ skill_result.error # None
    /\ tool_message.result # None

\* ------------------------------------------------------------ C39
\* the latest chat() call has returned
ChatReturned == chat_call.n > 0 /\ chat_call.pc = "idle"

\* C39: the reply returned by NexussAgent.chat(m) is built only from
\* output-channel entries published by the cycle that drained m: entries
\* left on the channel by earlier cycles are never returned as the reply to
\* m, and message entries already collected are not discarded when a later
\* entry is an error.
C39_ReplyFromOwnCycle ==
  ChatReturned =>
    /\ \A i \in 1..Len(chat_call.reply.parts) :
         chat_call.m \in chat_call.reply.parts[i][2].drained
    /\ chat_call.reply.dropped = <<>>

\* ------------------------------------------------------------ C40
\* C40: in every context-usage snapshot returned by build_context,
\* total_tokens equals system_tokens + core_tokens + recall_tokens and
\* total_tokens + available_tokens equals the configured budget, whether or
\* not an archival excerpt was included.
C40_SnapshotArithmetic ==
  ctx_last.made =>
    LET snap == ctx_last.context
    IN /\ snap.total_tokens =
            snap.system_tokens + snap.core_tokens + snap.recall_tokens
       /\ snap.total_tokens + snap.available_tokens = ATTENTION_WINDOW_TOKENS

====
